---- MODULE Spec2Model ----
(***************************************************************************)
(* Grading / composite-index / grouped-aggregation logic of the heat-wave  *)
(* analysis scripts (heatwave_analysis_utf8.py, old_codes/*.py and         *)
(* 250917_SampleCode.py), modelled as a state machine over small tables.   *)
(*                                                                         *)
(* Numbers are exact: decimal literals are carried as scaled integers      *)
(* (household averages in tenths, the discomfort index in 1/10000, the     *)
(* quantile edges in fifths, weights in tenths).  Binary floating-point    *)
(* rounding of pandas/numpy is outside the model.                          *)
(***************************************************************************)
EXTENDS Integers, Sequences, FiniteSets, TLC

VARIABLES
    cls,        \* which script / analysis class is running
    files,      \* content of the three input CSV files (row choices)
    pop_data,   \* loaded population table   (self.pop_data / self.population_data / pop_data)
    env_data,   \* loaded environment table  (self.env_data / self.environment_data / env_data)
    move_data,  \* loaded movement table     (self.move_data / self.movement_data / movement_data)
    returned,   \* per analysis method: the table it last returned / produced
    agg,        \* grouped sums computed by the last movement analysis
    scores,     \* score vectors and weights of the last composite computations
    runs,       \* per analysis: how many times it ran to completion
    op,         \* last operation executed
    err,        \* exception that left the last operation ("none" if it returned)
    ncalls,     \* number of operations executed so far
    run         \* the caller: position in the full-run method, return values,
                \* exceptions caught and printed, files written

vars == <<cls, files, pop_data, env_data, move_data, returned, agg, scores, runs,
          op, err, ncalls, run>>

----------------------------------------------------------------------------
(* Bounds of the model *)

MaxRows == 3
MaxCalls == 3

----------------------------------------------------------------------------
(* Cells, columns, tables (pandas DataFrame as a sequence of named columns) *)

NaN == [nan |-> TRUE]
Num(n) == [num |-> n]
Cat(s) == [cat |-> s]
IsNaN(c) == "nan" \in DOMAIN c
IsNum(c) == "num" \in DOMAIN c
IsCat(c) == "cat" \in DOMAIN c

Unset == <<[name |-> "<unset>", vals |-> <<>>]>>

Col(name, vals) == [name |-> name, vals |-> vals]

HasCol(t, name) == \E i \in 1..Len(t) : t[i].name = name

ColIndex(t, name) == CHOOSE i \in 1..Len(t) : t[i].name = name

GetCol(t, name) == t[ColIndex(t, name)].vals

\* a column assignment that always adds a column, also under a name the
\* table already has
SetCol_append(t, name, vals) == Append(t, Col(name, vals))

\* df[name] = vals : overwrite the column in place if present, else append it
SetCol(t, name, vals) ==
    IF HasCol(t, name)
    THEN [t EXCEPT ![ColIndex(t, name)] = Col(name, vals)]
    ELSE Append(t, Col(name, vals))

NRows(t) == Len(t[1].vals)

\* float('inf'); every modelled measurement is far below it in magnitude
INF == 1000000000

----------------------------------------------------------------------------
(* Small arithmetic helpers *)

RECURSIVE SumSeq(_)
SumSeq(s) == IF s = <<>> THEN 0 ELSE s[1] + SumSeq(Tail(s))

RECURSIVE SetToSortedSeq(_)
SetToSortedSeq(S) ==
    IF S = {} THEN <<>>
    ELSE LET m == CHOOSE x \in S : \A y \in S : x <= y
         IN <<m>> \o SetToSortedSeq(S \ {m})

SeqRange(s) == {s[i] : i \in 1..Len(s)}

----------------------------------------------------------------------------
(* Grade scales: the bins and labels passed to pd.cut / pd.qcut *)

heat_bins == <<-INF, 25, 28, 31, 35, INF>>
\* labels 안전, 주의, 경고, 위험, 매우위험
heat_labels == <<"safe", "caution", "warning", "danger", "extreme">>

\* discomfort index, bins in 1/10000
discomfort_bins == <<0, 680000, 750000, 800000, 850000, INF>>
\* labels 쾌적, 보통, 약간불쾌, 불쾌, 매우불쾌
discomfort_labels == <<"pleasant", "normal", "slightly_unpleasant", "unpleasant", "very_unpleasant">>

uv_bins == <<0, 2, 5, 7, 10, INF>>
\* labels 낮음, 보통, 높음, 매우높음, 위험
uv_labels == <<"low", "moderate", "high", "very_high", "hazard">>

\* household average, bins in tenths
family_bins == <<0, 20, 25, 30, INF>>
\* labels 1인가구형, 소가족형, 일반가족형, 대가족형
family_labels == <<"single_type", "small_type", "general_type", "large_type">>
\* labels 1인가구많음, 소가족, 일반가족, 대가족
family_labels_fixed == <<"single_many", "small", "general", "large">>

\* labels 매우낮음, 낮음, 보통, 높음, 매우높음
density_labels == <<"very_low", "low", "medium", "high", "very_high">>
numeric_labels == <<1, 2, 3, 4, 5>>

\* q=5 of pd.qcut
q == 5

----------------------------------------------------------------------------
(* pd.cut(x, bins, labels) with right=True, include_lowest=False:           *)
(* ids = bins.searchsorted(x, side='left'); ids = 0 or len(bins) is missing *)

searchsorted_left(bins, x) == Cardinality({i \in 1..Len(bins) : bins[i] < x})

cut_code(c, bins) ==
    IF ~IsNum(c) THEN 0
    ELSE LET ids == searchsorted_left(bins, c.num)
         IN IF ids = 0 \/ ids = Len(bins) THEN 0 ELSE ids

\* pd.cut with the label list applied from the top interval down
cut_reversed(x, bins, labels) ==
    [i \in 1..Len(x) |->
        LET k == cut_code(x[i], bins)
        IN IF k = 0 THEN NaN ELSE Cat(labels[Len(labels) + 1 - k])]

cut(x, bins, labels) ==
    [i \in 1..Len(x) |->
        LET k == cut_code(x[i], bins)
        IN IF k = 0 THEN NaN ELSE Cat(labels[k])]

----------------------------------------------------------------------------
(* pd.qcut(x, q, labels, duplicates='drop'): edges are the quantiles        *)
(* 0, 1/q, ..., 1 (linear interpolation between order statistics),          *)
(* duplicate edges are dropped, then _bins_to_cuts(include_lowest=True).    *)
(* Edges and values are compared multiplied by q.                           *)

NonMissing(x) == SelectSeq(x, IsNum)

SortedNums(x) ==
    LET nm == NonMissing(x)
    IN SortSeq([i \in 1..Len(nm) |-> nm[i].num], LAMBDA a, b : a < b)

quantile_q(s, i) ==
    LET h == (Len(s) - 1) * i
        lo == h \div q
        r == h % q
    IN IF r = 0 THEN q * s[lo + 1]
       ELSE q * s[lo + 1] + r * (s[lo + 2] - s[lo + 1])

\* the edges of pd.cut(x, bins=5): equal-width intervals between the
\* smallest and the largest value
equal_width_edges(x) ==
    LET s == SortedNums(x)
    IN [i \in 1..(q + 1) |-> q * s[1] + (i - 1) * (s[Len(s)] - s[1])]

quantile_edges(x) ==
    LET s == SortedNums(x)
    IN [i \in 1..(q + 1) |-> quantile_q(s, i - 1)]

\* algos.unique(bins) for duplicates='drop' (edges are already nondecreasing)
qcut_bins(x) == SetToSortedSeq(SeqRange(quantile_edges(x)))

\* "Bin labels must be one fewer than the number of bin edges"
qcut_raises(x, labels) ==
    \/ NonMissing(x) = <<>>
    \/ Len(labels) # Len(qcut_bins(x)) - 1

qcut_code(c, bins) ==
    IF ~IsNum(c) THEN 0
    ELSE LET ids == IF q * c.num = bins[1] THEN 1
                    ELSE searchsorted_left(bins, q * c.num)
         IN IF ids = 0 \/ ids = Len(bins) THEN 0 ELSE ids

qcut(x, labels) ==
    LET bins == qcut_bins(x)
    IN [i \in 1..Len(x) |->
           LET k == qcut_code(x[i], bins)
           IN IF k = 0 THEN NaN ELSE Cat(labels[k])]

----------------------------------------------------------------------------
(* pd.factorize(values)[0]: codes in order of first appearance, -1 missing  *)

FirstPos(x, c) == CHOOSE i \in 1..Len(x) : x[i] = c /\ \A j \in 1..(i - 1) : x[j] # c

factorize(x) ==
    [i \in 1..Len(x) |->
        IF IsNaN(x[i]) THEN -1
        ELSE Cardinality({FirstPos(x, x[j]) : j \in {k \in 1..Len(x) :
                            ~IsNaN(x[k]) /\ FirstPos(x, x[k]) < FirstPos(x, x[i])}})]

----------------------------------------------------------------------------
(* Composite scores.  Weights are the decimal literals in tenths.           *)

Tenths == 10
scale_factor == 20

\* population weights 0.6 and 0.5
pop_weights_heavy == <<6, 5>>

\* the weight literals of the three composite expressions
pop_weights == <<6, 4>>
env_weights == <<5, 3, 2>>
run_weights == <<10>>

\* (s1 * w1 + s2 * w2 + ...) * 20
weighted_score(sc, weights) ==
    (SumSeq([k \in 1..Len(weights) |-> sc[k] * weights[k]]) * scale_factor) \div Tenths

\* row-wise composite over several score columns
composite(cols, weights) ==
    [i \in 1..Len(cols[1]) |->
        Num(weighted_score([k \in 1..Len(cols) |-> cols[k][i]], weights))]

plus_one(codes) == [i \in 1..Len(codes) |-> codes[i] + 1]

\* pd.factorize(df[grade])[0] + 1
score_of(t, grade) == plus_one(factorize(GetCol(t, grade)))

\* 0.81*T + 0.01*H*(0.99*T - 14.3) + 46.3, in 1/10000; NaN propagates
discomfort_index(temp, humi) ==
    [i \in 1..Len(temp) |->
        IF IsNum(temp[i]) /\ IsNum(humi[i])
        THEN Num(8100 * temp[i].num + humi[i].num * (99 * temp[i].num - 1430) + 463000)
        ELSE NaN]

\* Series.fillna(0)
fillna0(x) == [i \in 1..Len(x) |-> IF IsNaN(x[i]) THEN Num(0) ELSE x[i]]

----------------------------------------------------------------------------
(* Input files.  A file content is a sequence of row choices; row k of the  *)
(* three files is PopRow/EnvRow/MoveRow of the k-th choice.                 *)
(* Column names are the ASCII part of the CSV headers, e.g.                 *)
(* "tot_popltn_co" for '총인구수(tot_popltn_co)'.                            *)

RowChoices == 1..4

\* <<total population, household average in tenths>>
PopRow(c) == CASE c = 1 -> <<100, 20>>
               [] c = 2 -> <<300, 31>>
               [] c = 3 -> <<200, 0>>
               [] OTHER -> <<300, 24>>

\* <<temperature, humidity, UV index (may be missing)>>
EnvRow(c) == CASE c = 1 -> <<20, 40, Num(0)>>
               [] c = 2 -> <<26, 60, Num(3)>>
               [] c = 3 -> <<36, 90, Num(11)>>
               [] OTHER -> <<30, 50, NaN>>

\* <<age group (may be missing), sex code (1 = F, 2 = M), population count>>
MoveRow(c) == CASE c = 1 -> <<Num(20), 1, 10>>
                [] c = 2 -> <<Num(20), 2, 5>>
                [] c = 3 -> <<Num(30), 1, 7>>
                [] OTHER -> <<NaN, 2, 5>>

RowSeqs == UNION {[1..n -> RowChoices] : n \in 1..MaxRows}

Filler(name, n) == Col(name, [i \in 1..n |-> NaN])

\* pd.read_csv of the population file: positions 1, 3, 5, 6, 7 are the
\* region name, total population, household average, male, female columns
read_pop(rows) ==
    LET n == Len(rows) IN
    << Filler("col0", n),
       Col("atdrc_nm", [i \in 1..n |-> Num(i)]),
       Filler("col2", n),
       Col("tot_popltn_co", [i \in 1..n |-> Num(PopRow(rows[i])[1])]),
       Filler("col4", n),
       Col("hshld_popltn_avrg_co", [i \in 1..n |-> Num(PopRow(rows[i])[2])]),
       Col("male_popltn_co", [i \in 1..n |-> Num(PopRow(rows[i])[1] \div 2)]),
       Col("female_popltn_co", [i \in 1..n |-> Num(PopRow(rows[i])[1] - PopRow(rows[i])[1] \div 2)]) >>

\* pd.read_csv of the S-DoT file: positions 2, 3, 9 are temperature,
\* humidity and UV
read_env(rows) ==
    LET n == Len(rows) IN
    << Filler("col0", n),
       Col("MODEL", [i \in 1..n |-> Num(1)]),
       Col("TEMP", [i \in 1..n |-> Num(EnvRow(rows[i])[1])]),
       Col("HUMI", [i \in 1..n |-> Num(EnvRow(rows[i])[2])]),
       Filler("col4", n), Filler("col5", n), Filler("col6", n),
       Filler("col7", n), Filler("col8", n),
       Col("ULTRA_RAYS", [i \in 1..n |-> EnvRow(rows[i])[3]]) >>

\* pd.read_csv of the KT movement file: positions 4, 5, 9 are sex, age
\* group and population count
read_move(rows) ==
    LET n == Len(rows) IN
    << Filler("col0", n), Filler("col1", n), Filler("col2", n), Filler("col3", n),
       Col("sex_nm", [i \in 1..n |-> Num(MoveRow(rows[i])[2])]),
       Col("agegrd_nm", [i \in 1..n |-> MoveRow(rows[i])[1]]),
       Filler("col6", n), Filler("col7", n), Filler("col8", n),
       Col("popl_cnt", [i \in 1..n |-> Num(MoveRow(rows[i])[3])]) >>

Unreadable == {"none", "pop", "env", "move"}

Classes == {"UTF8", "Final", "Fixed", "Run", "Simple", "OD"}

NoAgg == [age_movement |-> <<>>, gender_movement |-> <<>>,
          start_df_time |-> <<>>, arv_df_time |-> <<>>]

NoScore == [cols |-> <<>>, weights |-> <<>>]

\* the files a run can meet: for the OD script the one .txt file is
\* readable and may or may not carry an age_grp column of its own
Files ==
    {f \in [rows : RowSeqs, unreadable : Unreadable, age_grp : BOOLEAN] :
        /\ cls = "OD" => f.unreadable = "none"
        /\ cls # "OD" => ~f.age_grp}

\* no full-run method is executing: methods are called one by one
NoRun == [pc |-> "idle", ret |-> "value", caught |-> {}, has_scores |-> FALSE,
          outputs |-> {}, files_returned |-> {}, listed |-> {}, run_ret |-> "none",
          steps |-> <<>>]

Init ==
    /\ cls \in Classes
    /\ files \in Files
    /\ pop_data = Unset
    /\ env_data = Unset
    /\ move_data = Unset
    /\ returned = [pop |-> Unset, env |-> Unset, move |-> Unset]
    /\ agg = NoAgg
    /\ scores = [pop |-> NoScore, env |-> NoScore]
    /\ runs = [pop |-> 0, env |-> 0, move |-> 0]
    /\ op = "init"
    /\ err = "none"
    /\ ncalls = 0
    /\ run = NoRun

\* the statements of the full-run method of each class, in order
steps_of(c) ==
    CASE c \in {"UTF8", "Final"} ->
            <<"load_data", "analyze_population_vulnerability", "analyze_environmental_risk",
              "analyze_movement_patterns", "calculate_scores", "create_visualization",
              "generate_report", "finish">>
      [] c \in {"Fixed", "Pipeline"} ->
            <<"load_data", "analyze_vulnerable_population", "analyze_environmental_risk",
              "analyze_movement_patterns", "calculate_scores", "create_visualization",
              "generate_report", "finish">>
      [] c = "Run" ->
            <<"load_and_analyze_data", "calculate_scores", "create_visualization",
              "generate_report", "finish">>
      [] c = "Simple" ->
            <<"simple_analysis", "calculate_scores", "create_visualization",
              "generate_report", "finish">>
      [] OTHER -> <<"finish">>

\* a full-run method that ignores what load_data returned
next_pc_ungated(name, e, r) ==
    IF e # "none" THEN "raised"
    ELSE LET sq == steps_of(cls)
             i == CHOOSE j \in 1..Len(sq) : sq[j] = name
         IN sq[i + 1]

\* the statement after step name; an exception leaves the full-run method,
\* and "if not self.load_data(): return" ends it when load_data returned False
next_pc(name, e, r) ==
    IF e # "none" THEN "raised"
    ELSE IF name = "load_data" /\ r = "False" THEN "finish"
    ELSE LET sq == steps_of(cls)
             i == CHOOSE j \in 1..Len(sq) : sq[j] = name
         IN sq[i + 1]

\* bookkeeping shared by every operation: it is either called on its own
\* (run.pc = "idle") or as the current statement of the full-run method;
\* r is the value it returns, c the exceptions it caught and printed, rn
\* the caller-visible record with the files and result keys it left
Stepped(name, e, r, c, rn) ==
    /\ run.pc \in {"idle", name}
    /\ run.pc = "idle" => ncalls < MaxCalls
    /\ ncalls' = ncalls + 1
    /\ op' = name
    /\ err' = e
    /\ run' = [rn EXCEPT !.ret = IF e = "none" THEN r ELSE "value",
                         !.caught = c,
                         !.pc = IF run.pc = "idle" THEN "idle" ELSE next_pc(name, e, r),
                         !.steps = IF run.pc = "idle" THEN @ ELSE Append(@, name)]
    /\ UNCHANGED <<cls, files>>

Returned(name, e, r, c) == Stepped(name, e, r, c, run)

Called(name, e) == Returned(name, e, "value", {})

----------------------------------------------------------------------------
(* load_data of the three classes: the reads happen in the order            *)
(* population, environment, movement inside one try block; the first        *)
(* failing read leaves the later attributes unset.                          *)

load_data ==
    /\ cls \in {"UTF8", "Final", "Fixed"}
    /\ IF files.unreadable = "none"
       THEN Returned("load_data", "none", "True", {})
       ELSE Returned("load_data", "none", "False", {"read_csv"})
    /\ pop_data' = IF files.unreadable = "pop" THEN pop_data ELSE read_pop(files.rows)
    /\ env_data' = IF files.unreadable \in {"pop", "env"} THEN env_data ELSE read_env(files.rows)
    /\ move_data' = IF files.unreadable \in {"pop", "env", "move"} THEN move_data
                    ELSE read_move(files.rows)
    /\ UNCHANGED <<returned, agg, scores, runs>>

----------------------------------------------------------------------------
(* Population vulnerability *)

\* qcut grade, cut grade and composite score written into table t; the
\* total-population and household-average columns are read at positions
\* tp and hp (iloc[:, 3] and iloc[:, 5], or col_names[3] and col_names[5])
population_scored(t, tp, hp) ==
    LET t1 == SetCol(t, "density_grade", qcut(t[tp].vals, density_labels))
        t2 == SetCol(t1, "family_index", cut(t1[hp].vals, family_bins, family_labels))
        density_score == score_of(t2, "density_grade")
        family_score == score_of(t2, "family_index")
    IN SetCol(t2, "vulnerability_score",
              composite(<<density_score, family_score>>, pop_weights))

\* density_score and family_score as left by the call that produced t
population_scores(t, dname, fname) ==
    [cols |-> <<score_of(t, dname), score_of(t, fname)>>, weights |-> pop_weights]

\* an analysis that returns normally whatever the state of the object
analyze_population_silent ==
    /\ cls = "UTF8"
    /\ Called("analyze_population_vulnerability", "none")
    /\ UNCHANGED <<pop_data, env_data, move_data, returned, agg, scores, runs>>

\* HeatWaveAnalysisUTF8.analyze_population_vulnerability: works on
\* self.pop_data itself and returns it
UTF8_analyze_population_vulnerability ==
    /\ cls = "UTF8"
    /\ IF pop_data = Unset
       THEN /\ Called("analyze_population_vulnerability", "AttributeError")
            /\ UNCHANGED <<pop_data, returned, scores, runs>>
       ELSE IF qcut_raises(pop_data[4].vals, density_labels)
       THEN /\ Called("analyze_population_vulnerability", "ValueError")
            /\ UNCHANGED <<pop_data, returned, scores, runs>>
       ELSE /\ Called("analyze_population_vulnerability", "none")
            /\ pop_data' = population_scored(pop_data, 4, 6)
            /\ returned' = [returned EXCEPT !.pop = pop_data']
            /\ scores' = [scores EXCEPT
                             !.pop = population_scores(pop_data', "density_grade", "family_index")]
            /\ runs' = [runs EXCEPT !.pop = @ + 1]
    /\ UNCHANGED <<env_data, move_data, agg>>

\* HeatWaveAnalysisFinal.analyze_population_vulnerability: same code with
\* the columns addressed through col_names[3], col_names[5]
Final_analyze_population_vulnerability ==
    /\ cls = "Final"
    /\ IF pop_data = Unset
       THEN /\ Called("analyze_population_vulnerability", "AttributeError")
            /\ UNCHANGED <<pop_data, returned, scores, runs>>
       ELSE IF qcut_raises(GetCol(pop_data, pop_data[4].name), density_labels)
       THEN /\ Called("analyze_population_vulnerability", "ValueError")
            /\ UNCHANGED <<pop_data, returned, scores, runs>>
       ELSE /\ Called("analyze_population_vulnerability", "none")
            /\ pop_data' = population_scored(pop_data,
                                ColIndex(pop_data, pop_data[4].name),
                                ColIndex(pop_data, pop_data[6].name))
            /\ returned' = [returned EXCEPT !.pop = pop_data']
            /\ scores' = [scores EXCEPT
                             !.pop = population_scores(pop_data', "density_grade", "family_index")]
            /\ runs' = [runs EXCEPT !.pop = @ + 1]
    /\ UNCHANGED <<env_data, move_data, agg>>

\* female / (male + female) * 100, in 1/100 percent (truncated); 0/0 is NaN
female_ratio(male, female) ==
    [i \in 1..Len(male) |->
        IF male[i].num + female[i].num = 0 THEN NaN
        ELSE Num((female[i].num * 10000) \div (male[i].num + female[i].num))]

\* HeatWaveAnalysisFixed.analyze_vulnerable_population: works on a copy of
\* self.population_data, columns addressed by name
population_scored_fixed(p) ==
    LET t1 == SetCol(p, "pop_density_grade", qcut(GetCol(p, "tot_popltn_co"), density_labels))
        t2 == SetCol(t1, "family_grade",
                     cut(GetCol(t1, "hshld_popltn_avrg_co"), family_bins, family_labels_fixed))
        t3 == SetCol(t2, "female_ratio",
                     female_ratio(GetCol(t2, "male_popltn_co"), GetCol(t2, "female_popltn_co")))
        density_score == score_of(t3, "pop_density_grade")
        family_score == score_of(t3, "family_grade")
    IN SetCol(t3, "pop_vulnerability_score",
              composite(<<density_score, family_score>>, pop_weights))

Fixed_analyze_vulnerable_population ==
    /\ cls = "Fixed"
    /\ IF pop_data = Unset
       THEN /\ Called("analyze_vulnerable_population", "AttributeError")
            /\ UNCHANGED <<returned, scores, runs>>
       ELSE IF qcut_raises(GetCol(pop_data, "tot_popltn_co"), density_labels)
       THEN /\ Called("analyze_vulnerable_population", "ValueError")
            /\ UNCHANGED <<returned, scores, runs>>
       ELSE /\ Called("analyze_vulnerable_population", "none")
            /\ returned' = [returned EXCEPT !.pop = population_scored_fixed(pop_data)]
            /\ scores' = [scores EXCEPT
                             !.pop = population_scores(returned'.pop, "pop_density_grade",
                                                       "family_grade")]
            /\ runs' = [runs EXCEPT !.pop = @ + 1]
    /\ UNCHANGED <<pop_data, env_data, move_data, agg>>

----------------------------------------------------------------------------
(* Environmental risk *)

Max(S) == CHOOSE x \in S : \A y \in S : y <= x

\* Header tests of the UTF8 column search, over the modelled headers:
\* '온도' in col or 'TEMP' in col / '습도' in col or 'HUMI' in col /
\* '자외선' in col or 'ULTRA' in col or 'UVI' in col
is_temp_col(name) == name \in {"TEMP"}
is_humidity_col(name) == name \in {"HUMI"}
is_uv_col(name) == name \in {"ULTRA_RAYS"}

\* for col in columns: if ...: temp_col = col elif ...: humidity_col = col
\* elif ...: uv_col = col   (the last matching column wins; 0 is None)
temp_col(t) ==
    LET S == {i \in 1..Len(t) : is_temp_col(t[i].name)}
    IN IF S = {} THEN 0 ELSE Max(S)

humidity_col(t) ==
    LET S == {i \in 1..Len(t) : ~is_temp_col(t[i].name) /\ is_humidity_col(t[i].name)}
    IN IF S = {} THEN 0 ELSE Max(S)

uv_col(t) ==
    LET S == {i \in 1..Len(t) : /\ ~is_temp_col(t[i].name)
                                /\ ~is_humidity_col(t[i].name)
                                /\ is_uv_col(t[i].name)}
    IN IF S = {} THEN 0 ELSE Max(S)

\* HeatWaveAnalysisUTF8.analyze_environmental_risk: heat grade and
\* discomfort grade written into self.env_data
environment_graded_utf8(t) ==
    LET tc == temp_col(t)
        hc == humidity_col(t)
        t1 == IF tc # 0 THEN SetCol(t, "heat_risk", cut(t[tc].vals, heat_bins, heat_labels))
              ELSE t
        t2 == IF tc # 0 /\ hc # 0
              THEN SetCol(t1, "discomfort_index", discomfort_index(t1[tc].vals, t1[hc].vals))
              ELSE t1
    IN IF tc # 0 /\ hc # 0
       THEN SetCol(t2, "discomfort_grade",
                   cut(GetCol(t2, "discomfort_index"), discomfort_bins, discomfort_labels))
       ELSE t2

UTF8_analyze_environmental_risk ==
    /\ cls = "UTF8"
    /\ IF env_data = Unset
       THEN /\ Called("analyze_environmental_risk", "AttributeError")
            /\ UNCHANGED <<env_data, returned, runs>>
       ELSE /\ Called("analyze_environmental_risk", "none")
            /\ env_data' = environment_graded_utf8(env_data)
            /\ returned' = [returned EXCEPT !.env = env_data']
            /\ runs' = [runs EXCEPT !.env = @ + 1]
    /\ UNCHANGED scores
    /\ UNCHANGED <<pop_data, move_data, agg>>

\* the three grades and the composite score of the Final / Fixed classes;
\* tn, hn, un are the names of the temperature, humidity and UV columns,
\* uvfill tells whether the UV column goes through fillna(0)
environment_scored(t, tn, hn, un, uvfill) ==
    LET t1 == SetCol(t, "heat_risk", cut(GetCol(t, tn), heat_bins, heat_labels))
        t2 == SetCol(t1, "discomfort_index", discomfort_index(GetCol(t1, tn), GetCol(t1, hn)))
        t3 == SetCol(t2, "discomfort_grade",
                     cut(GetCol(t2, "discomfort_index"), discomfort_bins, discomfort_labels))
        uv == IF uvfill THEN fillna0(GetCol(t3, un)) ELSE GetCol(t3, un)
        t4 == SetCol(t3, "uv_risk", cut(uv, uv_bins, uv_labels))
        temp_score == score_of(t4, "heat_risk")
        comfort_score == score_of(t4, "discomfort_grade")
        uv_score == score_of(t4, "uv_risk")
    IN SetCol(t4, "env_risk_score",
              composite(<<temp_score, comfort_score, uv_score>>, env_weights))

\* temp_score, comfort_score and uv_score as left by the call that produced t
environment_scores(t) ==
    [cols |-> <<score_of(t, "heat_risk"), score_of(t, "discomfort_grade"),
                score_of(t, "uv_risk")>>,
     weights |-> env_weights]

\* HeatWaveAnalysisFinal.analyze_environmental_risk: columns taken from
\* col_names[2], col_names[3], col_names[9]; works on self.env_data
Final_analyze_environmental_risk ==
    /\ cls = "Final"
    /\ IF env_data = Unset
       THEN /\ Called("analyze_environmental_risk", "AttributeError")
            /\ UNCHANGED <<env_data, returned, scores, runs>>
       ELSE /\ Called("analyze_environmental_risk", "none")
            /\ env_data' = environment_scored(env_data, env_data[3].name,
                                              env_data[4].name, env_data[10].name, TRUE)
            /\ returned' = [returned EXCEPT !.env = env_data']
            /\ scores' = [scores EXCEPT !.env = environment_scores(env_data')]
            /\ runs' = [runs EXCEPT !.env = @ + 1]
    /\ UNCHANGED <<pop_data, move_data, agg>>

\* HeatWaveAnalysisFixed.analyze_environmental_risk: works on a copy of
\* self.environment_data, columns addressed by header
Fixed_analyze_environmental_risk ==
    /\ cls = "Fixed"
    /\ IF env_data = Unset
       THEN /\ Called("analyze_environmental_risk", "AttributeError")
            /\ UNCHANGED <<returned, scores, runs>>
       ELSE /\ Called("analyze_environmental_risk", "none")
            /\ returned' = [returned EXCEPT !.env =
                               environment_scored(env_data, "TEMP", "HUMI", "ULTRA_RAYS", FALSE)]
            /\ scores' = [scores EXCEPT !.env = environment_scores(returned'.env)]
            /\ runs' = [runs EXCEPT !.env = @ + 1]
    /\ UNCHANGED <<pop_data, env_data, move_data, agg>>

----------------------------------------------------------------------------
(* Grouped sums *)

\* groupby(...).first(): each key reports the value of its first observation
groupby_first(keys, vals) ==
    LET ks == SetToSortedSeq({keys[i].num : i \in {j \in 1..Len(keys) : IsNum(keys[j])}})
    IN [j \in 1..Len(ks) |->
           LET i == FirstPos(keys, Num(ks[j]))
           IN <<ks[j], IF IsNum(vals[i]) THEN vals[i].num ELSE 0>>]

RECURSIVE first_seen_keys(_)
first_seen_keys(keys) ==
    IF keys = <<>> THEN <<>>
    ELSE LET front == first_seen_keys(SubSeq(keys, 1, Len(keys) - 1))
             last == keys[Len(keys)]
         IN IF IsNum(last) /\ last.num \notin SeqRange(front)
            THEN Append(front, last.num) ELSE front

\* groupby(..., sort=False).sum(): keys in the order of first appearance
groupby_sum_unsorted(keys, vals) ==
    LET ks == first_seen_keys(keys)
    IN [j \in 1..Len(ks) |->
           <<ks[j], SumSeq([i \in 1..Len(keys) |->
                               IF keys[i] = Num(ks[j]) /\ IsNum(vals[i])
                               THEN vals[i].num ELSE 0])>>]

\* df.groupby(key)[value].sum(): one entry <<key, total>> per distinct
\* non-missing key, in ascending key order (sort=True, dropna=True);
\* missing values are skipped by sum
groupby_sum(keys, vals) ==
    LET ks == SetToSortedSeq({keys[i].num : i \in {j \in 1..Len(keys) : IsNum(keys[j])}})
    IN [j \in 1..Len(ks) |->
           <<ks[j], SumSeq([i \in 1..Len(keys) |->
                               IF keys[i] = Num(ks[j]) /\ IsNum(vals[i])
                               THEN vals[i].num ELSE 0])>>]

\* Series.sort_values(ascending=False); equal totals keep their key order
sort_values_desc(g) ==
    SortSeq(g, LAMBDA a, b : a[2] > b[2] \/ (a[2] = b[2] /\ a[1] < b[1]))

\* Header tests of the UTF8 movement column search:
\* '연령' in col or 'age' in col.lower() / '성별' in col or 'sex' in col.lower()
\* / '인구' in col or 'popl' in col.lower()
is_age_col(name) == name \in {"agegrd_nm"}
is_sex_col(name) == name \in {"sex_nm"}
is_population_col(name) == name \in {"popl_cnt"}

age_col(t) ==
    LET S == {i \in 1..Len(t) : is_age_col(t[i].name)}
    IN IF S = {} THEN 0 ELSE Max(S)

sex_col(t) ==
    LET S == {i \in 1..Len(t) : ~is_age_col(t[i].name) /\ is_sex_col(t[i].name)}
    IN IF S = {} THEN 0 ELSE Max(S)

population_col(t) ==
    LET S == {i \in 1..Len(t) : /\ ~is_age_col(t[i].name)
                                /\ ~is_sex_col(t[i].name)
                                /\ is_population_col(t[i].name)}
    IN IF S = {} THEN 0 ELSE Max(S)

\* HeatWaveAnalysisUTF8.analyze_movement_patterns
UTF8_analyze_movement_patterns ==
    /\ cls = "UTF8"
    /\ IF move_data = Unset
       THEN /\ Called("analyze_movement_patterns", "AttributeError")
            /\ UNCHANGED <<returned, agg, runs>>
       ELSE LET ac == age_col(move_data)
                sc == sex_col(move_data)
                pc == population_col(move_data)
            IN /\ Called("analyze_movement_patterns", "none")
               /\ agg' = [agg EXCEPT
                          !.age_movement =
                              IF ac # 0 /\ pc # 0
                              THEN sort_values_desc(groupby_sum(move_data[ac].vals,
                                                                move_data[pc].vals))
                              ELSE <<>>,
                          !.gender_movement =
                              IF sc # 0 /\ pc # 0
                              THEN groupby_sum(move_data[sc].vals, move_data[pc].vals)
                              ELSE <<>>]
               /\ returned' = [returned EXCEPT !.move = move_data]
               /\ runs' = [runs EXCEPT !.move = @ + 1]
    /\ UNCHANGED <<pop_data, env_data, move_data, scores>>

\* HeatWaveAnalysisFinal.analyze_movement_patterns: columns taken from
\* col_names[5], col_names[4], col_names[9]
Final_analyze_movement_patterns ==
    /\ cls = "Final"
    /\ IF move_data = Unset
       THEN /\ Called("analyze_movement_patterns", "AttributeError")
            /\ UNCHANGED <<returned, agg, runs>>
       ELSE /\ Called("analyze_movement_patterns", "none")
            /\ agg' = [agg EXCEPT
                       !.age_movement =
                           sort_values_desc(groupby_sum(GetCol(move_data, move_data[6].name),
                                                        GetCol(move_data, move_data[10].name))),
                       !.gender_movement =
                           groupby_sum(GetCol(move_data, move_data[5].name),
                                       GetCol(move_data, move_data[10].name))]
            /\ returned' = [returned EXCEPT !.move = move_data]
            /\ runs' = [runs EXCEPT !.move = @ + 1]
    /\ UNCHANGED <<pop_data, env_data, move_data, scores>>

----------------------------------------------------------------------------
(* SimpleHeatWaveAnalysis.load_and_analyze_data (run_analysis.py) and the   *)
(* three load blocks of simple_analysis.py: each block reads its file and   *)
(* analyses it inside its own try/except, so nothing leaves the operation.  *)

run_population(p) ==
    LET t1 == SetCol(p, "pop_density_grade", qcut(GetCol(p, "tot_popltn_co"), density_labels))
        density_score == score_of(t1, "pop_density_grade")
    IN SetCol(t1, "pop_vulnerability_score", composite(<<density_score>>, run_weights))

\* qcut(..., labels=[1,2,3,4,5]).astype(float) * 20
simple_population(p) ==
    LET g == qcut(GetCol(p, "tot_popltn_co"), numeric_labels)
    IN SetCol(p, "vulnerability_score",
              [i \in 1..Len(g) |-> IF IsNaN(g[i]) THEN NaN ELSE Num(g[i].cat * scale_factor)])

\* the exceptions the three try/except blocks catch and print: a failing
\* read_csv, and the ValueError of the quantile grading
block_errors(labels) ==
    (IF files.unreadable # "none" THEN {"read_csv"} ELSE {})
    \cup (IF /\ files.unreadable # "pop"
              /\ qcut_raises(GetCol(read_pop(files.rows), "tot_popltn_co"), labels)
           THEN {"ValueError"} ELSE {})

\* the three blocks inside one try: the first failing read ends them all
Run_load_single_try ==
    /\ cls = "Run"
    /\ Returned("load_and_analyze_data", "none", "None", block_errors(density_labels))
    /\ pop_data' = IF files.unreadable = "pop" THEN Unset ELSE read_pop(files.rows)
    /\ env_data' = IF files.unreadable \in {"pop", "env"} THEN Unset
                   ELSE read_env(files.rows)
    /\ move_data' = IF files.unreadable \in {"pop", "env", "move"} THEN Unset
                    ELSE read_move(files.rows)
    /\ runs' = [runs EXCEPT !.env = IF env_data' = Unset THEN @ ELSE @ + 1,
                            !.move = IF move_data' = Unset THEN @ ELSE @ + 1]
    /\ UNCHANGED <<returned, agg, scores>>

Run_load_and_analyze_data ==
    /\ cls = "Run"
    /\ Returned("load_and_analyze_data", "none", "None", block_errors(density_labels))
    /\ pop_data' = IF files.unreadable = "pop" THEN Unset
                   ELSE LET p == read_pop(files.rows)
                        IN IF qcut_raises(GetCol(p, "tot_popltn_co"), density_labels)
                           THEN p ELSE run_population(p)
    /\ env_data' = IF files.unreadable = "env" THEN Unset
                   ELSE LET e == read_env(files.rows)
                        IN SetCol(e, "heat_risk", cut(GetCol(e, "TEMP"), heat_bins, heat_labels))
    /\ move_data' = IF files.unreadable = "move" THEN Unset ELSE read_move(files.rows)
    /\ agg' = [agg EXCEPT !.age_movement =
                   IF files.unreadable = "move" THEN <<>>
                   ELSE groupby_sum(GetCol(move_data', "agegrd_nm"), GetCol(move_data', "popl_cnt"))]
    /\ scores' = [scores EXCEPT !.pop =
                     IF HasCol(pop_data', "pop_density_grade")
                     THEN [cols |-> <<score_of(pop_data', "pop_density_grade")>>,
                           weights |-> run_weights]
                     ELSE NoScore]
    /\ runs' = [pop |-> IF HasCol(pop_data', "pop_vulnerability_score")
                        THEN runs.pop + 1 ELSE runs.pop,
                env |-> IF files.unreadable = "env" THEN runs.env ELSE runs.env + 1,
                move |-> IF files.unreadable = "move" THEN runs.move ELSE runs.move + 1]
    /\ UNCHANGED returned

Simple_load_blocks ==
    /\ cls = "Simple"
    /\ Returned("simple_analysis", "none", "None", block_errors(numeric_labels))
    /\ pop_data' = IF files.unreadable = "pop" THEN Unset
                   ELSE LET p == read_pop(files.rows)
                        IN IF qcut_raises(GetCol(p, "tot_popltn_co"), numeric_labels)
                           THEN p ELSE simple_population(p)
    /\ env_data' = IF files.unreadable = "env" THEN Unset ELSE read_env(files.rows)
    /\ move_data' = IF files.unreadable = "move" THEN Unset ELSE read_move(files.rows)
    /\ agg' = [agg EXCEPT !.age_movement =
                   IF files.unreadable = "move" THEN <<>>
                   ELSE groupby_sum(GetCol(move_data', "agegrd_nm"), GetCol(move_data', "popl_cnt"))]
    /\ runs' = [pop |-> IF HasCol(pop_data', "vulnerability_score")
                        THEN runs.pop + 1 ELSE runs.pop,
                env |-> IF files.unreadable = "env" THEN runs.env ELSE runs.env + 1,
                move |-> IF files.unreadable = "move" THEN runs.move ELSE runs.move + 1]
    /\ UNCHANGED <<returned, scores>>

----------------------------------------------------------------------------
(* 250917_SampleCode.py: the body of the per-file loop.  Timestamps are     *)
(* minutes; place codes and names are numbers.                              *)

\* <<start_dt, arv_dt, agegrd_nm, popl_cnt, start_place_cd, arv_place_cd>>
ODRow(c) == CASE c = 1 -> <<Num(605), Num(650), 23, 10, 1, 2>>
              [] c = 2 -> <<Num(630), Num(700), 27, 5, 1, 3>>
              [] c = 3 -> <<Num(700), Num(725), 35, 7, 2, 1>>
              [] OTHER -> <<NaN, Num(725), 35, 5, 9, 1>>

\* pd.read_csv(file_path, sep='|'): headers as they stand in the file
read_od(rows, with_age_grp) ==
    LET n == Len(rows)
        base == << Col("<start_dt>", [i \in 1..n |-> ODRow(rows[i])[1]]),
                   Col("<arv_dt>", [i \in 1..n |-> ODRow(rows[i])[2]]),
                   Col("<start_place_cd>", [i \in 1..n |-> Num(ODRow(rows[i])[5])]),
                   Col("<arv_place_cd>", [i \in 1..n |-> Num(ODRow(rows[i])[6])]),
                   Col("<agegrd_nm>", [i \in 1..n |-> Num(ODRow(rows[i])[3])]),
                   Col("<popl_cnt>", [i \in 1..n |-> Num(ODRow(rows[i])[4])]) >>
    IN IF with_age_grp
       THEN Append(base, Col("<age_grp>", [i \in 1..n |-> Num(ODRow(rows[i])[3])]))
       ELSE base

\* re.sub of every character outside a-z, A-Z and _ on the modelled headers
clean_name(name) ==
    CASE name = "<start_dt>" -> "start_dt"
      [] name = "<arv_dt>" -> "arv_dt"
      [] name = "<start_place_cd>" -> "start_place_cd"
      [] name = "<arv_place_cd>" -> "arv_place_cd"
      [] name = "<agegrd_nm>" -> "agegrd_nm"
      [] name = "<popl_cnt>" -> "popl_cnt"
      [] name = "<age_grp>" -> "age_grp"
      [] OTHER -> name

\* codeDict: polycode -> full_name; Series.map gives NaN for unknown codes
codeDict(c) ==
    IF IsNum(c) /\ c.num \in {1, 2, 3} THEN Num(100 + c.num) ELSE NaN

\* Series.dt.floor("h")
floor_h(c) == IF IsNum(c) THEN Num((c.num \div 60) * 60) ELSE NaN

\* lines 35-49: header clean-up, code mapping, hour columns
od_prepared(df) ==
    LET d1 == [i \in 1..Len(df) |-> Col(clean_name(df[i].name), df[i].vals)]
        d2 == SetCol(d1, "start_place_cd",
                     [i \in 1..NRows(d1) |-> codeDict(GetCol(d1, "start_place_cd")[i])])
        d3 == SetCol(d2, "arv_place_cd",
                     [i \in 1..NRows(d2) |-> codeDict(GetCol(d2, "arv_place_cd")[i])])
        d4 == SetCol(d3, "move_st_hr",
                     [i \in 1..NRows(d3) |-> floor_h(GetCol(d3, "start_dt")[i])])
    IN SetCol(d4, "move_arv_hr",
              [i \in 1..NRows(d4) |-> floor_h(GetCol(d4, "arv_dt")[i])])

\* lexicographic order of two-part keys
pair_less(a, b) == a[1] < b[1] \/ (a[1] = b[1] /\ a[2] < b[2])

RECURSIVE SetToSortedPairs(_)
SetToSortedPairs(S) ==
    IF S = {} THEN <<>>
    ELSE LET m == CHOOSE x \in S : \A y \in S : x = y \/ pair_less(x, y)
         IN <<m>> \o SetToSortedPairs(S \ {m})

\* df.groupby([k1, k2])[value].sum().reset_index(): rows <<k1, k2, total>>
\* in ascending key order; rows with a missing key part are dropped
groupby2_sum(k1, k2, vals) ==
    LET ks == SetToSortedPairs({<<k1[i].num, k2[i].num>> :
                                  i \in {j \in 1..Len(k1) : IsNum(k1[j]) /\ IsNum(k2[j])}})
    IN [j \in 1..Len(ks) |->
           <<ks[j][1], ks[j][2],
             SumSeq([i \in 1..Len(k1) |->
                        IF /\ k1[i] = Num(ks[j][1])
                           /\ k2[i] = Num(ks[j][2])
                           /\ IsNum(vals[i])
                        THEN vals[i].num ELSE 0])>>]

\* line 32
OD_read_csv ==
    /\ cls = "OD"
    /\ op = "init"
    /\ Called("read_csv", "none")
    /\ move_data' = read_od(files.rows, files.age_grp)
    /\ UNCHANGED <<pop_data, env_data, returned, agg, scores, runs>>

\* lines 35-86: without an age_grp column the first group-by raises
\* KeyError (age_grp is only assigned on line 68); with one, the two
\* hour x age sums are computed and the group-by on the placeholder
\* column of line 63 raises KeyError.  Nothing is written either way.
OD_process_file ==
    /\ cls = "OD"
    /\ op = "read_csv"
    /\ Called("process_file", "KeyError")
    /\ move_data' = od_prepared(move_data)
    /\ agg' = IF HasCol(move_data', "age_grp")
              THEN [agg EXCEPT
                     !.start_df_time = groupby2_sum(GetCol(move_data', "move_st_hr"),
                                                    GetCol(move_data', "age_grp"),
                                                    GetCol(move_data', "popl_cnt")),
                     !.arv_df_time = groupby2_sum(GetCol(move_data', "move_arv_hr"),
                                                  GetCol(move_data', "age_grp"),
                                                  GetCol(move_data', "popl_cnt"))]
              ELSE agg
    /\ UNCHANGED <<pop_data, env_data, returned, scores, runs>>

----------------------------------------------------------------------------

Next ==
    \/ load_data
    \/ UTF8_analyze_population_vulnerability
    \/ Final_analyze_population_vulnerability
    \/ Fixed_analyze_vulnerable_population
    \/ UTF8_analyze_environmental_risk
    \/ Final_analyze_environmental_risk
    \/ Fixed_analyze_environmental_risk
    \/ UTF8_analyze_movement_patterns
    \/ Final_analyze_movement_patterns
    \/ Run_load_and_analyze_data
    \/ Simple_load_blocks
    \/ OD_read_csv
    \/ OD_process_file

Spec == Init /\ [][Next]_vars

----------------------------------------------------------------------------
(* HeatWaveAnalysis (data_processing_pipeline.py) *)

\* load_data: one try/except per file; a failing read is printed and
\* leaves its attribute unset; nothing is returned
Pipeline_load_data ==
    /\ cls = "Pipeline"
    /\ Returned("load_data", "none", "None",
                IF files.unreadable = "none" THEN {} ELSE {"read_csv"})
    /\ pop_data' = IF files.unreadable = "pop" THEN pop_data ELSE read_pop(files.rows)
    /\ env_data' = IF files.unreadable = "env" THEN env_data ELSE read_env(files.rows)
    /\ move_data' = IF files.unreadable = "move" THEN move_data ELSE read_move(files.rows)
    /\ UNCHANGED <<returned, agg, scores, runs>>

\* pd.qcut(x, q=5, labels=...) without duplicates='drop': "Bin edges must
\* be unique" when two quantile edges coincide
qcut_nodrop_raises(x) == NonMissing(x) = <<>> \/ Len(qcut_bins(x)) < q + 1

\* male / (male + female) * 100, in 1/100 percent (truncated); 0/0 is NaN
sex_ratio(male, female) ==
    [i \in 1..Len(male) |->
        IF male[i].num + female[i].num = 0 THEN NaN
        ELSE Num((male[i].num * 10000) \div (male[i].num + female[i].num))]

pipeline_population(p) ==
    LET t1 == SetCol(p, "pop_density_grade", qcut(GetCol(p, "tot_popltn_co"), density_labels))
        t2 == SetCol(t1, "family_grade",
                     cut(GetCol(t1, "hshld_popltn_avrg_co"), family_bins, family_labels_fixed))
    IN SetCol(t2, "sex_ratio",
              sex_ratio(GetCol(t2, "male_popltn_co"), GetCol(t2, "female_popltn_co")))

Pipeline_analyze_vulnerable_population ==
    /\ cls = "Pipeline"
    /\ IF pop_data = Unset
       THEN /\ Called("analyze_vulnerable_population", "AttributeError")
            /\ UNCHANGED <<returned, runs>>
       ELSE IF qcut_nodrop_raises(GetCol(pop_data, "tot_popltn_co"))
       THEN /\ Called("analyze_vulnerable_population", "ValueError")
            /\ UNCHANGED <<returned, runs>>
       ELSE /\ Called("analyze_vulnerable_population", "none")
            /\ returned' = [returned EXCEPT !.pop = pipeline_population(pop_data)]
            /\ runs' = [runs EXCEPT !.pop = @ + 1]
    /\ UNCHANGED <<pop_data, env_data, move_data, agg, scores>>

\* the first column whose name matches (for ...: if ...: break; 0 is None)
first_col(t, S) == IF S = {} THEN 0 ELSE CHOOSE i \in S : \A j \in S : i <= j

pipeline_environment(t) ==
    LET tc == first_col(t, {i \in 1..Len(t) : is_temp_col(t[i].name)})
        hc == first_col(t, {i \in 1..Len(t) : is_humidity_col(t[i].name)})
        uc == first_col(t, {i \in 1..Len(t) : is_uv_col(t[i].name)})
        t1 == IF tc = 0 THEN t
              ELSE SetCol(t, "heat_risk", cut(t[tc].vals, heat_bins, heat_labels))
        t2 == IF tc = 0 \/ hc = 0 THEN t1
              ELSE SetCol(t1, "discomfort_index", discomfort_index(t[tc].vals, t[hc].vals))
        t3 == IF tc = 0 \/ hc = 0 THEN t2
              ELSE SetCol(t2, "discomfort_grade",
                          cut(GetCol(t2, "discomfort_index"), discomfort_bins, discomfort_labels))
    IN IF uc = 0 THEN t3 ELSE SetCol(t3, "uv_risk", cut(t[uc].vals, uv_bins, uv_labels))

Pipeline_analyze_environmental_risk ==
    /\ cls = "Pipeline"
    /\ IF env_data = Unset
       THEN /\ Called("analyze_environmental_risk", "AttributeError")
            /\ UNCHANGED <<returned, runs>>
       ELSE /\ Called("analyze_environmental_risk", "none")
            /\ returned' = [returned EXCEPT !.env = pipeline_environment(env_data)]
            /\ runs' = [runs EXCEPT !.env = @ + 1]
    /\ UNCHANGED <<pop_data, env_data, move_data, agg, scores>>

\* analyze_movement_patterns of HeatWaveAnalysis and HeatWaveAnalysisFixed:
\* group-by tables are printed, the copy of the movement table is returned
Copy_analyze_movement_patterns ==
    /\ cls \in {"Pipeline", "Fixed"}
    /\ IF move_data = Unset
       THEN /\ Called("analyze_movement_patterns", "AttributeError")
            /\ UNCHANGED <<returned, agg, runs>>
       ELSE /\ Called("analyze_movement_patterns", "none")
            /\ returned' = [returned EXCEPT !.move = move_data]
            /\ agg' = [agg EXCEPT
                         !.age_movement = groupby_sum(GetCol(move_data, "agegrd_nm"),
                                                      GetCol(move_data, "popl_cnt")),
                         !.gender_movement = groupby_sum(GetCol(move_data, "sex_nm"),
                                                         GetCol(move_data, "popl_cnt"))]
            /\ runs' = [runs EXCEPT !.move = @ + 1]
    /\ UNCHANGED <<pop_data, env_data, move_data, scores>>

----------------------------------------------------------------------------
(* Score table, chart and report *)

RunClasses == {"UTF8", "Final", "Fixed", "Pipeline", "Run", "Simple"}

\* calculate_optimal_locations / calculate_final_scores /
\* calculate_comprehensive_score / calculate_optimal_location_score: a
\* literal table of five districts is built and printed.  UTF8, Fixed and
\* Pipeline store it in self.results.  The table of Fixed holds the key
\* jonghap-jeomseo for Gangnam-gu where the print loop reads
\* jonghap-jeomsu: KeyError after the table was stored.
calculate_scores ==
    /\ cls \in RunClasses
    /\ cls = "Simple" => run.pc # "idle"
    /\ Stepped("calculate_scores", IF cls = "Fixed" THEN "KeyError" ELSE "none", "value", {},
               [run EXCEPT !.has_scores = @ \/ cls \in {"UTF8", "Fixed", "Pipeline", "Simple"}])
    /\ UNCHANGED <<pop_data, env_data, move_data, returned, agg, scores, runs>>

\* no chart code sits in a try block
viz_unguarded == {}

\* the classes whose chart / report code sits in try ... except Exception
viz_guarded == {"UTF8", "Final", "Run", "Simple"}
report_guarded == {"UTF8", "Final", "Simple"}

\* create_visualization(s) / create_simple_visualization /
\* generate_visualization: fail says that plotting or savefig raises.
\* Fixed reads the jonghap-jeomsu key of every stored district first.
create_visualization ==
    /\ cls \in RunClasses
    /\ cls = "Simple" => run.pc # "idle"
    /\ \E fail \in BOOLEAN :
          IF cls = "Fixed" /\ run.has_scores
          THEN Stepped("create_visualization", "KeyError", "value", {}, run)
          ELSE IF fail
          THEN IF cls \in viz_guarded
               THEN Stepped("create_visualization", "none", "None", {"Exception"}, run)
               ELSE Stepped("create_visualization", "Exception", "value", {}, run)
          ELSE Stepped("create_visualization", "none",
                       IF cls = "UTF8" THEN "png" ELSE "None", {},
                       [run EXCEPT !.outputs = @ \cup {"png"},
                                   !.files_returned =
                                        IF cls = "UTF8" THEN @ \cup {"png"} ELSE @])
    /\ UNCHANGED <<pop_data, env_data, move_data, returned, agg, scores, runs>>

\* generate_final_report / generate_report /
\* generate_policy_compliant_report: fail says that writing the file
\* raises.  Fixed formats the jonghap-jeomsu key of every stored district.
generate_report ==
    /\ cls \in RunClasses
    /\ cls = "Simple" => run.pc # "idle"
    /\ \E fail \in BOOLEAN :
          IF cls = "Fixed" /\ run.has_scores
          THEN Stepped("generate_report", "KeyError", "value", {}, run)
          ELSE IF fail
          THEN IF cls \in report_guarded
               THEN Stepped("generate_report", "none", "None", {"Exception"}, run)
               ELSE Stepped("generate_report", "OSError", "value", {}, run)
          ELSE Stepped("generate_report", "none",
                       IF cls \in {"UTF8"} THEN "txt"
                       ELSE IF cls \in {"Final", "Simple"} THEN "None" ELSE "value", {},
                       [run EXCEPT !.outputs = @ \cup {"txt"},
                                   !.files_returned =
                                        IF cls = "UTF8" THEN @ \cup {"txt"} ELSE @])
    /\ UNCHANGED <<pop_data, env_data, move_data, returned, agg, scores, runs>>

\* the end of the full-run method: after "return False" / "return" on a
\* failed load nothing is listed; otherwise UTF8 lists the files whose step
\* returned a name and returns True, the others list both files
finish ==
    /\ run.pc = "finish"
    /\ ncalls' = ncalls + 1
    /\ op' = "run_return"
    /\ err' = "none"
    /\ LET loaded == run.steps # <<"load_data">>
       IN run' = [run EXCEPT
                     !.pc = "returned",
                     !.run_ret = IF cls = "UTF8"
                                 THEN IF loaded THEN "True" ELSE "False"
                                 ELSE "None",
                     !.listed = IF ~loaded THEN {}
                                ELSE IF cls = "UTF8" THEN run.files_returned
                                ELSE {"png", "txt"}]
    /\ UNCHANGED <<cls, files, pop_data, env_data, move_data, returned, agg, scores, runs>>

\* a fresh object (or the start of the script) about to execute its
\* full-run method
InitRun ==
    /\ cls \in RunClasses
    /\ files \in Files
    /\ pop_data = Unset
    /\ env_data = Unset
    /\ move_data = Unset
    /\ returned = [pop |-> Unset, env |-> Unset, move |-> Unset]
    /\ agg = NoAgg
    /\ scores = [pop |-> NoScore, env |-> NoScore]
    /\ runs = [pop |-> 0, env |-> 0, move |-> 0]
    /\ op = "init"
    /\ err = "none"
    /\ ncalls = 0
    /\ run = [NoRun EXCEPT !.pc = steps_of(cls)[1]]

NextRun ==
    \/ load_data
    \/ UTF8_analyze_population_vulnerability
    \/ Final_analyze_population_vulnerability
    \/ Fixed_analyze_vulnerable_population
    \/ UTF8_analyze_environmental_risk
    \/ Final_analyze_environmental_risk
    \/ Fixed_analyze_environmental_risk
    \/ UTF8_analyze_movement_patterns
    \/ Final_analyze_movement_patterns
    \/ Run_load_and_analyze_data
    \/ Simple_load_blocks
    \/ Pipeline_load_data
    \/ Pipeline_analyze_vulnerable_population
    \/ Pipeline_analyze_environmental_risk
    \/ Copy_analyze_movement_patterns
    \/ calculate_scores
    \/ create_visualization
    \/ generate_report
    \/ finish

SpecRun == InitRun /\ [][NextRun]_vars

\* the longest input file of the free-call specification: two rows give
\* both a population column that grades and one that does not
MaxCallRows == 2

\* a fresh object whose methods are called one by one, in any order
InitCalls ==
    /\ cls \in RunClasses \ {"Simple"}
    /\ files \in {f \in Files : Len(f.rows) <= MaxCallRows}
    /\ pop_data = Unset
    /\ env_data = Unset
    /\ move_data = Unset
    /\ returned = [pop |-> Unset, env |-> Unset, move |-> Unset]
    /\ agg = NoAgg
    /\ scores = [pop |-> NoScore, env |-> NoScore]
    /\ runs = [pop |-> 0, env |-> 0, move |-> 0]
    /\ op = "init"
    /\ err = "none"
    /\ ncalls = 0
    /\ run = NoRun

NextCalls ==
    \/ load_data
    \/ UTF8_analyze_population_vulnerability
    \/ Final_analyze_population_vulnerability
    \/ Fixed_analyze_vulnerable_population
    \/ UTF8_analyze_environmental_risk
    \/ Final_analyze_environmental_risk
    \/ Fixed_analyze_environmental_risk
    \/ UTF8_analyze_movement_patterns
    \/ Final_analyze_movement_patterns
    \/ Run_load_and_analyze_data
    \/ Pipeline_load_data
    \/ Pipeline_analyze_vulnerable_population
    \/ Pipeline_analyze_environmental_risk
    \/ Copy_analyze_movement_patterns
    \/ calculate_scores
    \/ create_visualization
    \/ generate_report

SpecCalls == InitCalls /\ [][NextCalls]_vars

----------------------------------------------------------------------------
(* Vocabulary of the properties *)

\* 1-based position of a label in its scale's label sequence
Rank(labels, l) == CHOOSE k \in 1..Len(labels) : labels[k] = l

\* rank of a grade cell, 0 for an ungraded (missing) cell
RankOrZero(labels, c) == IF IsCat(c) THEN Rank(labels, c.cat) ELSE 0

\* the tables that carry the grades and scores of the last analysis
pop_result == IF cls \in {"UTF8", "Final", "Fixed"} THEN returned.pop ELSE pop_data
env_result == IF cls \in {"UTF8", "Final", "Fixed"} THEN returned.env ELSE env_data

density_name == IF cls \in {"UTF8", "Final"} THEN "density_grade" ELSE "pop_density_grade"
family_name == IF cls \in {"UTF8", "Final"} THEN "family_index" ELSE "family_grade"
family_scale == IF cls \in {"UTF8", "Final"} THEN family_labels ELSE family_labels_fixed
pop_score_name == IF cls \in {"UTF8", "Final"} THEN "vulnerability_score"
                  ELSE "pop_vulnerability_score"

\* the value each UV grade was cut from
uv_input(t) == IF cls = "Final" THEN fillna0(GetCol(t, "ULTRA_RAYS")) ELSE GetCol(t, "ULTRA_RAYS")

Grading(t, grade, v, labels) ==
    IF HasCol(t, grade) THEN {[g |-> GetCol(t, grade), v |-> v, labels |-> labels]} ELSE {}

\* every grade column cut on a fixed scale, with its input and its labels
FixedGradings ==
    UNION { IF HasCol(env_result, "heat_risk")
            THEN Grading(env_result, "heat_risk", GetCol(env_result, "TEMP"), heat_labels)
            ELSE {},
            IF HasCol(env_result, "discomfort_grade")
            THEN Grading(env_result, "discomfort_grade",
                         GetCol(env_result, "discomfort_index"), discomfort_labels)
            ELSE {},
            IF HasCol(env_result, "uv_risk")
            THEN Grading(env_result, "uv_risk", uv_input(env_result), uv_labels)
            ELSE {},
            IF HasCol(pop_result, family_name)
            THEN Grading(pop_result, family_name,
                         GetCol(pop_result, "hshld_popltn_avrg_co"), family_scale)
            ELSE {} }

\* the density grade column cut on the quantile scale
QuantileGradings ==
    IF HasCol(pop_result, density_name)
    THEN Grading(pop_result, density_name, GetCol(pop_result, "tot_popltn_co"), density_labels)
    ELSE {}

----------------------------------------------------------------------------
\* C1: every finite value graded on a fixed scale (heat risk, discomfort
\* index, UV, family structure) receives exactly one of the scale's labels.
C1_TotalCoverage ==
    \A r \in FixedGradings :
        \A i \in 1..Len(r.v) :
            IsNum(r.v[i]) => IsCat(r.g[i]) /\ r.g[i].cat \in SeqRange(r.labels)

----------------------------------------------------------------------------
\* C2: the numeric score a composite formula uses for a grade is the 1-based
\* position of the grade's label in its scale, on every row and whatever the
\* order of the rows.
ScoreIsRank(sc, t, grade, labels) ==
    \A i \in 1..Len(sc) :
        IsCat(GetCol(t, grade)[i]) => sc[i] = Rank(labels, GetCol(t, grade)[i].cat)

C2_RankMapping ==
    /\ scores.pop.cols # <<>> =>
          /\ ScoreIsRank(scores.pop.cols[1], pop_result, density_name, density_labels)
          /\ Len(scores.pop.cols) > 1 =>
                ScoreIsRank(scores.pop.cols[2], pop_result, family_name, family_scale)
    /\ scores.env.cols # <<>> =>
          /\ ScoreIsRank(scores.env.cols[1], env_result, "heat_risk", heat_labels)
          /\ ScoreIsRank(scores.env.cols[2], env_result, "discomfort_grade", discomfort_labels)
          /\ ScoreIsRank(scores.env.cols[3], env_result, "uv_risk", uv_labels)

----------------------------------------------------------------------------
\* C3: on every scale (fixed or quantile), v1 < v2 implies that the rank of
\* the grade of v1 is at most the rank of the grade of v2 (an ungraded value
\* counting as rank 0); the numeric quantile label of simple_analysis.py,
\* carried by vulnerability_score = label * 20, is monotone likewise.
MonotoneGrading(r) ==
    \A i, j \in 1..Len(r.v) :
        (IsNum(r.v[i]) /\ IsNum(r.v[j]) /\ r.v[i].num < r.v[j].num)
            => RankOrZero(r.labels, r.g[i]) <= RankOrZero(r.labels, r.g[j])

C3_Monotonic ==
    /\ \A r \in FixedGradings \cup QuantileGradings : MonotoneGrading(r)
    /\ (cls = "Simple" /\ HasCol(pop_data, "vulnerability_score")) =>
          \A i, j \in 1..NRows(pop_data) :
              GetCol(pop_data, "tot_popltn_co")[i].num < GetCol(pop_data, "tot_popltn_co")[j].num
                  => GetCol(pop_data, "vulnerability_score")[i].num
                        <= GetCol(pop_data, "vulnerability_score")[j].num

StrictlyGraded(r) ==
    \E i, j \in 1..Len(r.v) :
        /\ IsNum(r.v[i]) /\ IsNum(r.v[j]) /\ r.v[i].num < r.v[j].num
        /\ 0 < RankOrZero(r.labels, r.g[i])
        /\ RankOrZero(r.labels, r.g[i]) < RankOrZero(r.labels, r.g[j])

\* a quantile grading and a fixed-scale grading that both separate two values
C3_Witness ==
    /\ \E r \in QuantileGradings : StrictlyGraded(r)
    /\ \E r \in FixedGradings : StrictlyGraded(r)

----------------------------------------------------------------------------
\* C4: every composite score is 20 times the weighted sum of the grade ranks
\* (population 0.6 density + 0.4 family, environment 0.5 temperature +
\* 0.3 comfort + 0.2 UV); two grades of rank 4 weighted 0.5 / 0.5 give 80.
C4_CompositeFormula ==
    /\ (cls \in {"UTF8", "Final", "Fixed"} /\ HasCol(pop_result, pop_score_name)) =>
          \A i \in 1..NRows(pop_result) :
              LET d == GetCol(pop_result, density_name)[i]
                  f == GetCol(pop_result, family_name)[i]
              IN (IsCat(d) /\ IsCat(f)) =>
                    GetCol(pop_result, pop_score_name)[i].num * 10
                       = 20 * (6 * Rank(density_labels, d.cat) + 4 * Rank(family_scale, f.cat))
    /\ (cls \in {"Final", "Fixed"} /\ HasCol(env_result, "env_risk_score")) =>
          \A i \in 1..NRows(env_result) :
              LET h == GetCol(env_result, "heat_risk")[i]
                  c == GetCol(env_result, "discomfort_grade")[i]
                  u == GetCol(env_result, "uv_risk")[i]
              IN (IsCat(h) /\ IsCat(c) /\ IsCat(u)) =>
                    GetCol(env_result, "env_risk_score")[i].num * 10
                       = 20 * (5 * Rank(heat_labels, h.cat) + 3 * Rank(discomfort_labels, c.cat)
                                 + 2 * Rank(uv_labels, u.cat))
    /\ weighted_score(<<4, 4>>, <<5, 5>>) = 80

----------------------------------------------------------------------------
\* C5: in every composite score the weights applied to the grade scores sum
\* to 1.0 and the scale factor is 20: a row whose grade scores all equal r
\* scores exactly 20 r, and the label-times-20 score of simple_analysis.py
\* is one of 20, 40, 60, 80, 100.
CompositeRows ==
    (IF scores.pop.cols # <<>>
     THEN {[s |-> GetCol(pop_result, pop_score_name)[i].num,
            sc |-> [k \in 1..Len(scores.pop.cols) |-> scores.pop.cols[k][i]],
            w |-> scores.pop.weights] : i \in 1..NRows(pop_result)}
     ELSE {})
    \cup
    (IF scores.env.cols # <<>>
     THEN {[s |-> GetCol(env_result, "env_risk_score")[i].num,
            sc |-> [k \in 1..Len(scores.env.cols) |-> scores.env.cols[k][i]],
            w |-> scores.env.weights] : i \in 1..NRows(env_result)}
     ELSE {})

AllEqual(sc) == \A k \in 1..Len(sc) : sc[k] = sc[1]

C5_WeightInvariant ==
    /\ \A r \in CompositeRows :
          /\ SumSeq(r.w) = 10
          /\ AllEqual(r.sc) => r.s = 20 * r.sc[1]
    /\ (cls = "Simple" /\ HasCol(pop_data, "vulnerability_score")) =>
          \A i \in 1..NRows(pop_data) :
              GetCol(pop_data, "vulnerability_score")[i].num \in {20, 40, 60, 80, 100}

\* a two- or three-part composite on a row whose grade scores coincide
C5_Witness ==
    \E r \in CompositeRows : Len(r.w) >= 2 /\ AllEqual(r.sc) /\ r.sc[1] >= 1

----------------------------------------------------------------------------
(* The composite expression on its own, with the weight literals as inputs *)

WeightChoices == {<<6, 4>>, <<5, 3, 3>>, <<5, 3, 2>>, <<5, 5>>}

MaxRank == 5

InitComposite ==
    /\ cls = "Composite"
    /\ files = [rows |-> <<1>>, unreadable |-> "none", age_grp |-> FALSE]
    /\ pop_data = Unset
    /\ env_data = Unset
    /\ move_data = Unset
    /\ returned = [pop |-> Unset, env |-> Unset, move |-> Unset]
    /\ agg = NoAgg
    /\ scores = [pop |-> NoScore, env |-> NoScore]
    /\ runs = [pop |-> 0, env |-> 0, move |-> 0]
    /\ op = "init"
    /\ err = "none"
    /\ ncalls = 0
    /\ run = NoRun

\* (s1 * w1 + s2 * w2 [+ s3 * w3]) * 20 evaluated on one row of grade
\* scores: the expression has no check on the weights and cannot raise
compute_composite ==
    /\ cls = "Composite"
    /\ \E w \in WeightChoices :
          \E g \in [1..Len(w) -> 1..MaxRank] :
              /\ scores' = [scores EXCEPT
                               !.pop = [cols |-> [k \in 1..Len(w) |-> <<g[k]>>], weights |-> w]]
              /\ returned' = [returned EXCEPT
                                 !.pop = <<Col("composite", composite(scores'.pop.cols, w))>>]
    /\ Called("compute_composite", "none")
    /\ runs' = [runs EXCEPT !.pop = @ + 1]
    /\ UNCHANGED <<pop_data, env_data, move_data, agg>>

NextComposite == compute_composite

SpecComposite == InitComposite /\ [][NextComposite]_vars

----------------------------------------------------------------------------
(* Grouped sums against the observations they were computed from *)

\* the single-key sums reported by the last operation, each with the key
\* and value columns of its observations
movement_done ==
    /\ move_data # Unset
    /\ \/ cls \in {"UTF8", "Final"} /\ op = "analyze_movement_patterns" /\ err = "none"
       \/ cls = "Run" /\ op = "load_and_analyze_data"
       \/ cls = "Simple" /\ op = "simple_analysis"

GroupedSums ==
    IF ~movement_done THEN {}
    ELSE {[g |-> agg.age_movement, k |-> GetCol(move_data, "agegrd_nm"),
           v |-> GetCol(move_data, "popl_cnt")]}
         \cup
         (IF cls \in {"UTF8", "Final"}
          THEN {[g |-> agg.gender_movement, k |-> GetCol(move_data, "sex_nm"),
                 v |-> GetCol(move_data, "popl_cnt")]}
          ELSE {})

od_done == cls = "OD" /\ op = "process_file" /\ HasCol(move_data, "age_grp")

\* the hour x age sums of the OD script
GroupedSums2 ==
    IF ~od_done THEN {}
    ELSE {[g |-> agg.start_df_time, k1 |-> GetCol(move_data, "move_st_hr"),
           k2 |-> GetCol(move_data, "age_grp"), v |-> GetCol(move_data, "popl_cnt")],
          [g |-> agg.arv_df_time, k1 |-> GetCol(move_data, "move_arv_hr"),
           k2 |-> GetCol(move_data, "age_grp"), v |-> GetCol(move_data, "popl_cnt")]}

\* sum of the value field over the observations whose positions are in S
SumOver(v, S) ==
    SumSeq([i \in 1..Len(v) |-> IF i \in S /\ IsNum(v[i]) THEN v[i].num ELSE 0])

\* each reported total is the sum over exactly the observations of its key,
\* keys are reported once, and only keys that occur are reported
SumsExact(r) ==
    /\ \A a \in 1..Len(r.g) :
          /\ r.g[a][2] = SumOver(r.v, {i \in 1..Len(r.k) : r.k[i] = Num(r.g[a][1])})
          /\ \E i \in 1..Len(r.k) : r.k[i] = Num(r.g[a][1])
          /\ \A b \in 1..Len(r.g) : r.g[b][1] = r.g[a][1] => b = a

SumsExact2(r) ==
    /\ \A a \in 1..Len(r.g) :
          /\ r.g[a][3] = SumOver(r.v, {i \in 1..Len(r.v) : /\ r.k1[i] = Num(r.g[a][1])
                                                        /\ r.k2[i] = Num(r.g[a][2])})
          /\ \E i \in 1..Len(r.v) : r.k1[i] = Num(r.g[a][1]) /\ r.k2[i] = Num(r.g[a][2])
          /\ \A b \in 1..Len(r.g) :
                (r.g[b][1] = r.g[a][1] /\ r.g[b][2] = r.g[a][2]) => b = a

\* number of reported keys observation i contributes to
Contributions(r, i) == Cardinality({a \in 1..Len(r.g) : r.k[i] = Num(r.g[a][1])})

Contributions2(r, i) ==
    Cardinality({a \in 1..Len(r.g) : r.k1[i] = Num(r.g[a][1]) /\ r.k2[i] = Num(r.g[a][2])})

----------------------------------------------------------------------------
\* distinct non-missing keys in the order in which they are first seen
RECURSIVE FirstSeen(_)
FirstSeen(k) ==
    IF k = <<>> THEN <<>>
    ELSE LET front == FirstSeen(SubSeq(k, 1, Len(k) - 1))
             last == k[Len(k)]
         IN IF IsNum(last) /\ last.num \notin SeqRange(front)
            THEN Append(front, last.num) ELSE front

Keys(g) == [a \in 1..Len(g) |-> g[a][1]]

Ascending(ks) == \A a, b \in 1..Len(ks) : a < b => ks[a] < ks[b]

\* the plain group-by results (no later re-sorting)
PlainGroupedSums ==
    {r \in GroupedSums : ~(cls \in {"UTF8", "Final"} /\ r.g = agg.age_movement
                             /\ r.k = GetCol(move_data, "agegrd_nm"))}

\* C8 as stated: the keys of a grouped result appear in first-seen order.
C8_FirstSeenOrder ==
    \A r \in PlainGroupedSums : Keys(r.g) = FirstSeen(r.k)

\* C8 (amended): the keys of a group-by result appear in ascending key order
\* for every input order (two-part keys in lexicographic order); the age
\* totals that UTF8 / Final pass through sort_values(ascending=False) appear
\* in descending order of total.
C8_SortedOrder ==
    /\ \A r \in PlainGroupedSums : Ascending(Keys(r.g))
    /\ \A r \in GroupedSums2 :
          \A a, b \in 1..Len(r.g) : a < b => pair_less(r.g[a], r.g[b])
    /\ (movement_done /\ cls \in {"UTF8", "Final"}) =>
          \A a, b \in 1..Len(agg.age_movement) :
              a < b => agg.age_movement[a][2] >= agg.age_movement[b][2]

\* a batch whose first-seen key order is not the ascending one
C8_Witness ==
    \E r \in PlainGroupedSums :
        /\ Len(r.g) >= 2
        /\ ~Ascending(FirstSeen(r.k))
        /\ r.k = GetCol(move_data, "agegrd_nm")

----------------------------------------------------------------------------
AnalysisOps == {"analyze_population_vulnerability", "analyze_vulnerable_population",
                "analyze_environmental_risk", "analyze_movement_patterns",
                "load_and_analyze_data", "simple_analysis"}

\* C9: running an analysis again on the loaded batch gives the same grades,
\* scores and group totals as its earlier run.
C9_Idempotent ==
    [][ (op' \in AnalysisOps /\ ncalls' # ncalls) =>
          /\ (runs.pop > 0 /\ runs'.pop > runs.pop) =>
                (pop_result' = pop_result /\ scores'.pop = scores.pop)
          /\ (runs.env > 0 /\ runs'.env > runs.env) =>
                (env_result' = env_result /\ scores'.env = scores.env)
          /\ (runs.move > 0 /\ runs'.move > runs.move) => agg' = agg ]_vars

\* the in-place population analysis has run twice
C9_Witness ==
    /\ cls = "UTF8"
    /\ runs.pop >= 2
    /\ op = "analyze_population_vulnerability"
    /\ HasCol(pop_data, "vulnerability_score")

----------------------------------------------------------------------------
\* C10: no analysis operation changes the loaded tables.
C10_InputImmutable ==
    [][ (op' \in {"analyze_population_vulnerability", "analyze_vulnerable_population",
                  "analyze_environmental_risk", "analyze_movement_patterns",
                  "process_file"}) =>
          /\ pop_data' = pop_data
          /\ env_data' = env_data
          /\ move_data' = move_data ]_vars

----------------------------------------------------------------------------
(* The density grading on its own: pd.qcut(q=5) with the five density      *)
(* labels over a total-population column of distinct values                *)

MaxValues == 7

\* the populations a column can hold: a dense range and one far larger value
ValuePool == 1..(MaxValues + 1) \cup {50}

InitQuantile ==
    /\ cls = "Quantile"
    /\ files = [rows |-> <<1>>, unreadable |-> "none", age_grp |-> FALSE]
    /\ \E S \in SUBSET ValuePool :
          /\ S # {}
          /\ Cardinality(S) <= MaxValues
          /\ pop_data = <<Col("tot_popltn_co",
                              LET sq == SetToSortedSeq(S)
                              IN [i \in 1..Len(sq) |-> Num(sq[i])])>>
    /\ env_data = Unset
    /\ move_data = Unset
    /\ returned = [pop |-> Unset, env |-> Unset, move |-> Unset]
    /\ agg = NoAgg
    /\ scores = [pop |-> NoScore, env |-> NoScore]
    /\ runs = [pop |-> 0, env |-> 0, move |-> 0]
    /\ op = "init"
    /\ err = "none"
    /\ ncalls = 0
    /\ run = NoRun

\* pop_data['density grade'] = pd.qcut(total population, q=5, labels=...,
\* duplicates='drop')
grade_density ==
    /\ cls = "Quantile"
    /\ op = "init"
    /\ IF qcut_raises(GetCol(pop_data, "tot_popltn_co"), density_labels)
       THEN /\ Called("qcut", "ValueError")
            /\ UNCHANGED <<returned, runs>>
       ELSE /\ Called("qcut", "none")
            /\ returned' = [returned EXCEPT !.pop =
                               SetCol(pop_data, "density_grade",
                                      qcut(GetCol(pop_data, "tot_popltn_co"), density_labels))]
            /\ runs' = [runs EXCEPT !.pop = @ + 1]
    /\ UNCHANGED <<pop_data, env_data, move_data, agg, scores>>

NextQuantile == grade_density

SpecQuantile == InitQuantile /\ [][NextQuantile]_vars

\* number of rows of the graded table that received label l
BucketSize(l) ==
    Cardinality({i \in 1..NRows(returned.pop) :
                    GetCol(returned.pop, "density_grade")[i] = Cat(l)})

\* C11: when the density scale is built with q=5 over n distinct values,
\* each of the five grade buckets receives within plus or minus 1 of n/5
\* observations (5 * size within 5 of n).
C11_QuantileBalance ==
    (cls = "Quantile" /\ returned.pop # Unset) =>
        \A l \in SeqRange(density_labels) :
            /\ 5 * BucketSize(l) - NRows(returned.pop) <= 5
            /\ NRows(returned.pop) - 5 * BucketSize(l) <= 5

\* a column of at least six distinct values graded, with two rows in one
\* bucket and the far larger value among them
C11_Witness ==
    /\ cls = "Quantile"
    /\ returned.pop # Unset
    /\ NRows(returned.pop) >= 6
    /\ Num(50) \in SeqRange(GetCol(returned.pop, "tot_popltn_co"))
    /\ \E l \in SeqRange(density_labels) : BucketSize(l) = 2

----------------------------------------------------------------------------
PopulationOps == {"analyze_population_vulnerability", "analyze_vulnerable_population",
                  "load_and_analyze_data", "simple_analysis"}

\* two or more of the six quantile edges of the column coincide
Degenerate(x) == NonMissing(x) # <<>> /\ Len(qcut_bins(x)) < q + 1

\* the density grades the last population analysis produced (<<>> if none)
density_grades ==
    IF cls \in {"UTF8", "Final", "Fixed"}
    THEN IF returned.pop # Unset /\ err = "none"
         THEN GetCol(returned.pop, density_name) ELSE <<>>
    ELSE IF cls = "Run" /\ HasCol(pop_data, "pop_density_grade")
         THEN GetCol(pop_data, "pop_density_grade")
    ELSE IF cls = "Simple" /\ HasCol(pop_data, "vulnerability_score")
         THEN GetCol(pop_data, "vulnerability_score")
    ELSE <<>>

\* C12: when two or more quantile edges of the total-population column
\* coincide, building the density scale with the five labels does not
\* fail and every row still receives a grade.
C12_SilentCollapse ==
    (/\ op \in PopulationOps
     /\ pop_data # Unset
     /\ Degenerate(GetCol(pop_data, "tot_popltn_co"))) =>
        /\ err = "none"
        /\ "ValueError" \notin run.caught
        /\ Len(density_grades) = NRows(pop_data)
        /\ \A i \in 1..Len(density_grades) : ~IsNaN(density_grades[i])

----------------------------------------------------------------------------
\* C13: where a missing measurement is replaced by 0 before grading (the UV
\* grading of HeatWaveAnalysisFinal), the grade is one of the declared
\* labels of the scale, never the ungraded outcome.
C13_FillZeroGraded ==
    (cls = "Final" /\ returned.env # Unset) =>
        \A i \in 1..NRows(returned.env) :
            IsNaN(GetCol(returned.env, "ULTRA_RAYS")[i]) =>
                /\ IsCat(GetCol(returned.env, "uv_risk")[i])
                /\ GetCol(returned.env, "uv_risk")[i].cat \in SeqRange(uv_labels)

----------------------------------------------------------------------------
(* Error propagation and the full-run methods *)

\* C14: an error raised while grading is never caught by the code that
\* grades: a ValueError of the quantile grading is never among the
\* exceptions an operation caught and printed, and the run never stands at
\* a later step after it
C14_FailFast ==
    /\ "ValueError" \notin run.caught
    /\ (op \in {"load_and_analyze_data", "simple_analysis"}
          /\ files.unreadable # "pop"
          /\ Degenerate(GetCol(read_pop(files.rows), "tot_popltn_co")))
       => run.pc \in {"idle", "raised"}

\* the table an analysis operation reads (Unset before load_data)
table_read ==
    CASE op \in {"analyze_population_vulnerability", "analyze_vulnerable_population"} -> pop_data
      [] op = "analyze_environmental_risk" -> env_data
      [] op = "analyze_movement_patterns" -> move_data
      [] OTHER -> <<>>

\* C15 (as stated): a method called before the method that sets what it
\* reads does not raise: an analysis called before load_data, and a chart
\* drawn before the score calculation, both return normally
C15_SilentOutOfOrder ==
    /\ table_read = Unset => err = "none"
    /\ (op = "create_visualization" /\ ~run.has_scores) => err # "KeyError"

\* C15 (amended): an analysis called before load_data leaves with
\* AttributeError, because only load_data creates the table attributes; a
\* chart drawn before the score calculation raises no KeyError, and in
\* HeatWaveAnalysisUTF8 it raises nothing at all
C15_OutOfOrder ==
    /\ table_read = Unset => err = "AttributeError"
    /\ (op = "create_visualization" /\ ~run.has_scores) => err # "KeyError"
    /\ (op = "create_visualization" /\ cls = "UTF8") => err = "none"

\* the chart was drawn before any score calculation, then the population
\* analysis was called before load_data
C15_Witness ==
    /\ op \in {"analyze_population_vulnerability", "analyze_vulnerable_population"}
    /\ pop_data = Unset
    /\ err = "AttributeError"
    /\ "png" \in run.outputs
    /\ ~run.has_scores

\* the steps of the full-run method of class c after load_data
steps_after_load(c) == SubSeq(steps_of(c), 2, Len(steps_of(c)) - 1)

\* C16: in HeatWaveAnalysisFixed.run_complete_analysis the misspelled key
\* of the Gangnam-gu entry makes no step fail, and a run that returns after
\* a successful load has executed the six steps in order and written both
\* output files
C16_FixedCompletes ==
    cls = "Fixed" =>
        /\ err # "KeyError"
        /\ (run.pc = "returned" /\ files.unreadable = "none") =>
              /\ run.steps = <<"load_data">> \o steps_after_load("Fixed")
              /\ run.outputs = {"png", "txt"}

\* C17: HeatWaveAnalysisUTF8.load_data returns True exactly when the three
\* tables were read; after it returned False the full-run method executes
\* no further step, writes no file, lists none and returns False
C17_LoadGate ==
    cls = "UTF8" =>
        /\ op = "load_data" =>
              /\ run.ret = "True" <=> files.unreadable = "none"
              /\ run.ret = "True" <=>
                    (pop_data # Unset /\ env_data # Unset /\ move_data # Unset)
        /\ (run.pc # "idle" /\ files.unreadable # "none") =>
              /\ Len(run.steps) <= 1
              /\ run.outputs = {}
              /\ run.pc \in {"load_data", "finish", "returned"}
        /\ (run.pc = "returned" /\ files.unreadable # "none") =>
              /\ run.run_ret = "False"
              /\ run.steps = <<"load_data">>
              /\ run.listed = {}

\* a full run whose load failed has returned False
C17_Witness ==
    /\ cls = "UTF8"
    /\ files.unreadable # "none"
    /\ run.pc = "returned"
    /\ run.run_ret = "False"
    /\ run.steps = <<"load_data">>

\* C18: in HeatWaveAnalysisUTF8.run_complete_analysis, once the load and
\* the four analysis steps have returned, neither output step raises, a
\* failed chart is followed by the report step, the method returns True,
\* and it lists exactly the files whose step returned a file name
C18_OutputFailuresTolerated ==
    (cls = "UTF8" /\ run.pc # "idle" /\ Len(run.steps) >= 5) =>
        /\ op \in {"create_visualization", "generate_report"} => err = "none"
        /\ op = "create_visualization" => run.pc = "generate_report"
        /\ op = "generate_report" => run.pc = "finish"
        /\ run.files_returned = run.outputs
        /\ run.pc = "returned" =>
              /\ run.run_ret = "True"
              /\ run.listed = run.outputs
              /\ run.steps = <<"load_data">> \o steps_after_load("UTF8")

\* the chart failed, the report was written, and the method returned True
\* listing the report only
C18_Witness ==
    /\ cls = "UTF8"
    /\ run.pc = "returned"
    /\ run.run_ret = "True"
    /\ run.outputs = {"txt"}
    /\ run.listed = {"txt"}

\* C19: in the full-run method of HeatWaveAnalysis, HeatWaveAnalysisFixed,
\* HeatWaveAnalysisFinal and HeatWaveAnalysisUTF8 no analysis step is
\* executed on a table attribute that was never set
C19_LoadBeforeUse ==
    (cls \in {"Pipeline", "Fixed", "Final", "UTF8"} /\ run.pc # "idle") =>
        /\ table_read # Unset
        /\ err # "AttributeError"

\* C20: in SimpleHeatWaveAnalysis.run_analysis and in simple_analysis.py
\* each of the three blocks runs whenever its own file can be read,
\* whatever happened in the other two, and the optimal-location listing,
\* the chart step and the report step are reached in every run
C20_IndependentBlocks ==
    (cls \in {"Run", "Simple"} /\ run.pc # "idle" /\ run.steps # <<>>) =>
        /\ pop_data # Unset <=> files.unreadable # "pop"
        /\ env_data # Unset <=> files.unreadable # "env"
        /\ move_data # Unset <=> files.unreadable # "move"
        /\ runs.env = IF files.unreadable = "env" THEN 0 ELSE 1
        /\ runs.move = IF files.unreadable = "move" THEN 0 ELSE 1
        /\ run.pc = "raised" => (cls = "Run" /\ op = "generate_report")
        /\ run.pc \in {"raised", "returned"} =>
              run.steps = SubSeq(steps_of(cls), 1, Len(steps_of(cls)) - 1)

\* one block failed, and the run still went through the listing, the chart
\* and the report
C20_Witness ==
    /\ cls \in {"Run", "Simple"}
    /\ files.unreadable = "pop"
    /\ env_data # Unset
    /\ move_data # Unset
    /\ run.pc = "returned"
    /\ run.outputs = {"png", "txt"}

----------------------------------------------------------------------------
(* encoding_fixer.py: every .csv file of the input folder is read as cp949  *)
(* (then as utf-8) and written as utf-8-sig into the output folder.  A file *)
(* is named by its position in the os.listdir listing.                      *)

MaxFiles == 2

\* what the bytes of a file are: cp949 text, utf-8 text that is not valid
\* cp949, bytes valid in neither encoding, or nothing at all (read_csv
\* raises EmptyDataError, which is not a UnicodeDecodeError)
Contents == {"cp949", "utf8", "binary", "empty"}

Entries == [csv : BOOLEAN, content : Contents]

Folders ==
    {[folder |-> "missing", entries |-> <<>>, out_exists |-> b] : b \in BOOLEAN}
    \cup {[folder |-> "present", entries |-> e, out_exists |-> b] :
             e \in UNION {[1..n -> Entries] : n \in 0..MaxFiles}, b \in BOOLEAN}

\* the script about to execute line 13
InitFixer ==
    /\ cls = "Fixer"
    /\ files \in Folders
    /\ pop_data = Unset
    /\ env_data = Unset
    /\ move_data = Unset
    /\ returned = [pop |-> Unset, env |-> Unset, move |-> Unset]
    /\ agg = NoAgg
    /\ scores = [pop |-> NoScore, env |-> NoScore]
    /\ runs = [pop |-> 0, env |-> 0, move |-> 0]
    /\ op = "init"
    /\ err = "none"
    /\ ncalls = 0
    /\ run = [pc |-> "makedirs", i |-> 0, out_folder |-> files.out_exists,
              outputs |-> {}, reads |-> <<>>, caught |-> <<>>, printed |-> <<>>]

\* lines 13-15
Fixer_makedirs ==
    /\ cls = "Fixer"
    /\ run.pc = "makedirs"
    /\ run' = [run EXCEPT !.pc = "listdir",
                          !.out_folder = TRUE,
                          !.printed = IF run.out_folder THEN @ ELSE Append(@, "created")]
    /\ op' = "makedirs"
    /\ err' = "none"
    /\ ncalls' = ncalls + 1
    /\ UNCHANGED <<cls, files, pop_data, env_data, move_data, returned, agg, scores, runs>>

\* a listing whose FileNotFoundError nobody catches
Fixer_listdir_uncaught ==
    /\ cls = "Fixer"
    /\ run.pc = "listdir"
    /\ run' = IF files.folder = "missing"
              THEN [run EXCEPT !.pc = "raised"]
              ELSE [run EXCEPT !.pc = IF files.entries = <<>> THEN "complete" ELSE "file",
                               !.i = 1]
    /\ op' = "listdir"
    /\ err' = IF files.folder = "missing" THEN "FileNotFoundError" ELSE "none"
    /\ ncalls' = ncalls + 1
    /\ UNCHANGED <<cls, files, pop_data, env_data, move_data, returned, agg, scores, runs>>

\* lines 18-19 and 48-49: os.listdir of a missing folder raises
\* FileNotFoundError, which the outer handler catches and prints
Fixer_listdir ==
    /\ cls = "Fixer"
    /\ run.pc = "listdir"
    /\ run' = IF files.folder = "missing"
              THEN [run EXCEPT !.pc = "complete",
                               !.caught = Append(@, <<0, "FileNotFoundError">>),
                               !.printed = Append(@, "not_found")]
              ELSE [run EXCEPT !.pc = IF files.entries = <<>> THEN "complete" ELSE "file",
                               !.i = 1]
    /\ op' = "listdir"
    /\ err' = "none"
    /\ ncalls' = ncalls + 1
    /\ UNCHANGED <<cls, files, pop_data, env_data, move_data, returned, agg, scores, runs>>

\* pd.read_csv(input_path, encoding=enc) on a file of the given content:
\* "ok" or the exception it raises
read_csv_as(content, enc) ==
    CASE content = "empty" -> "EmptyDataError"
      [] content = "binary" -> "UnicodeDecodeError"
      [] content = "utf8" /\ enc = "cp949" -> "UnicodeDecodeError"
      [] content = "cp949" /\ enc = "utf-8" -> "UnicodeDecodeError"
      [] OTHER -> "ok"

\* a conversion that retries as utf-8 after any failure of the first read
convert_retry_always(content) ==
    LET r1 == read_csv_as(content, "cp949")
        r2 == read_csv_as(content, "utf-8")
    IN IF r1 = "ok"
       THEN [reads |-> <<"cp949">>, written |-> TRUE, caught |-> <<>>,
             printed |-> "converted"]
       ELSE [reads |-> <<"cp949", "utf-8">>, written |-> r2 = "ok",
             caught |-> IF r2 = "ok" THEN <<r1>> ELSE <<r1, r2>>,
             printed |-> IF r2 = "ok" THEN "converted_utf8" ELSE "read_error"]

\* lines 24-46 for one .csv file: the encodings read in order, whether
\* to_csv was reached, the exceptions caught and the message printed.
\* utf-8-sig encodes every string a read can return, so to_csv does not
\* depend on the content of the file.
convert(content) ==
    LET r1 == read_csv_as(content, "cp949")
        r2 == read_csv_as(content, "utf-8")
    IN IF r1 = "ok"
       THEN [reads |-> <<"cp949">>, written |-> TRUE, caught |-> <<>>,
             printed |-> "converted"]
       ELSE IF r1 = "UnicodeDecodeError"
       THEN [reads |-> <<"cp949", "utf-8">>, written |-> r2 = "ok",
             caught |-> IF r2 = "ok" THEN <<r1>> ELSE <<r1, r2>>,
             printed |-> IF r2 = "ok" THEN "converted_utf8" ELSE "read_error"]
       ELSE [reads |-> <<"cp949">>, written |-> FALSE, caught |-> <<r1>>,
             printed |-> "process_error"]

\* lines 19-46: one iteration of the loop
Fixer_convert_file ==
    /\ cls = "Fixer"
    /\ run.pc = "file"
    /\ LET e == files.entries[run.i]
           c == convert(e.content)
           last == run.i = Len(files.entries)
       IN run' = IF ~e.csv
                 THEN [run EXCEPT !.pc = IF last THEN "complete" ELSE "file",
                                  !.i = IF last THEN @ ELSE @ + 1]
                 ELSE [run EXCEPT
                          !.pc = IF last THEN "complete" ELSE "file",
                          !.i = IF last THEN @ ELSE @ + 1,
                          !.reads = @ \o [k \in 1..Len(c.reads) |-> <<run.i, c.reads[k]>>],
                          !.outputs = IF c.written THEN @ \cup {run.i} ELSE @,
                          !.caught = @ \o [k \in 1..Len(c.caught) |->
                                                  <<run.i, c.caught[k]>>],
                          !.printed = Append(@, c.printed)]
    /\ op' = "convert_file"
    /\ err' = "none"
    /\ ncalls' = ncalls + 1
    /\ UNCHANGED <<cls, files, pop_data, env_data, move_data, returned, agg, scores, runs>>

\* line 51
Fixer_complete ==
    /\ cls = "Fixer"
    /\ run.pc = "complete"
    /\ run' = [run EXCEPT !.pc = "done", !.printed = Append(@, "complete")]
    /\ op' = "complete"
    /\ err' = "none"
    /\ ncalls' = ncalls + 1
    /\ UNCHANGED <<cls, files, pop_data, env_data, move_data, returned, agg, scores, runs>>

NextFixer ==
    \/ Fixer_makedirs
    \/ Fixer_listdir
    \/ Fixer_convert_file
    \/ Fixer_complete

\* the interpreter always executes the next statement of the script
SpecFixer == InitFixer /\ [][NextFixer]_vars /\ WF_vars(NextFixer)

\* file k of the listing has been through the loop body
processed(k) ==
    /\ k \in 1..Len(files.entries)
    /\ k < run.i \/ run.pc \in {"complete", "done"}

\* the encodings file k was read with, in order
reads_of(k) ==
    LET sel == SelectSeq(run.reads, LAMBDA r : r[1] = k)
    IN [j \in 1..Len(sel) |-> sel[j][2]]

\* the per-file protocol, for every file already through the loop
FixerProtocol ==
    /\ \A k \in run.outputs : processed(k)
    /\ \A j \in 1..Len(run.reads) : processed(run.reads[j][1])
    /\ run.pc = "done" /\ files.folder = "present" =>
          \A k \in 1..Len(files.entries) : processed(k)
    /\ \A k \in 1..Len(files.entries) :
          processed(k) =>
             LET e == files.entries[k]
                 rk == reads_of(k)
                 first == read_csv_as(e.content, "cp949")
                 second == read_csv_as(e.content, "utf-8")
             IN IF ~e.csv
                THEN rk = <<>> /\ k \notin run.outputs
                ELSE /\ Len(rk) \in {1, 2}
                     /\ rk[1] = "cp949"
                     /\ Len(rk) = 2 <=> first = "UnicodeDecodeError"
                     /\ Len(rk) = 2 => rk[2] = "utf-8"
                     /\ k \in run.outputs <=>
                           (first = "ok" \/ (Len(rk) = 2 /\ second = "ok"))

\* C21: encoding_fixer.py attempts every .csv file of the input folder
\* exactly once, cp949 first and utf-8 only after a UnicodeDecodeError of
\* the cp949 read; an output file of the same name exists exactly when one
\* of the reads succeeded; a failing file does not stop the loop; other
\* files are not read and the input folder is never changed
C21_PerFileProtocol ==
    /\ [](cls = "Fixer" => FixerProtocol)
    /\ [][cls = "Fixer" => files' = files]_vars

\* an undecodable .csv file came first and the utf-8 .csv file after it was
\* still converted
C21_Witness ==
    /\ cls = "Fixer"
    /\ run.pc = "done"
    /\ Len(files.entries) = 2
    /\ files.entries[1] = [csv |-> TRUE, content |-> "binary"]
    /\ files.entries[2] = [csv |-> TRUE, content |-> "utf8"]
    /\ run.outputs = {2}
    /\ reads_of(2) = <<"cp949", "utf-8">>

\* C22: whatever the input folder is (missing, empty, holding files that
\* cannot be read), encoding_fixer.py ends without an uncaught exception,
\* and the last thing it does is print the completion message
C22_Terminates ==
    /\ [](cls = "Fixer" =>
             /\ err = "none"
             /\ run.pc # "raised"
             /\ run.pc = "done" =>
                   run.printed[Len(run.printed)] = "complete")
    /\ <>(cls = "Fixer" => run.pc = "done")
    /\ [][cls = "Fixer" => run.pc # "done"]_vars

\* the input folder was missing: the error was printed, then the
\* completion message
C22_Witness ==
    /\ cls = "Fixer"
    /\ files.folder = "missing"
    /\ run.pc = "done"
    /\ run.caught = <<<<0, "FileNotFoundError">>>>
    /\ SubSeq(run.printed, Len(run.printed) - 1, Len(run.printed))
          = <<"not_found", "complete">>

----------------------------------------------------------------------------
(* The OD aggregation script (250917_SampleCode.py) *)

\* C23: for an input file the OD script has gone through, the loop body
\* ended without an exception and the four aggregate outputs were written
C23_FourOutputs ==
    (cls = "OD" /\ op = "process_file") =>
        /\ err = "none"
        /\ Cardinality(run.outputs) = 4

\* Output file names (lines 70-74).  A string is the sequence of its
\* characters.

MaxStem == 3

txt == <<".", "t", "x", "t">>
csv == <<".", "c", "s", "v">>

\* the pieces a file name is made of before its final '.txt'
NameParts == {<<"a">>, <<"b">>, <<" ">>, txt}

RECURSIVE Concat(_)
Concat(parts) == IF parts = <<>> THEN <<>> ELSE Head(parts) \o Concat(Tail(parts))

\* the base names glob.glob(input_folder/*.txt) can return
TxtNames ==
    {Concat(ps) \o txt : ps \in UNION {[1..n -> NameParts] : n \in 0..MaxStem}}

\* str.replace(old, new): every non-overlapping occurrence, left to right
RECURSIVE replace(_, _, _)
replace(str, old, new) ==
    IF Len(str) < Len(old) THEN str
    ELSE IF SubSeq(str, 1, Len(old)) = old
    THEN new \o replace(SubSeq(str, Len(old) + 1, Len(str)), old, new)
    ELSE <<str[1]>> \o replace(Tail(str), old, new)

start_time == <<" ", "s", "t", "a", "r", "t", "_", "t", "i", "m", "e">>
arv_time == <<" ", "a", "r", "v", "_", "t", "i", "m", "e">>
start_dong_time ==
    <<" ", "s", "t", "a", "r", "t", "_", "d", "o", "n", "g", "_", "t", "i", "m", "e">>
arv_dong_time == <<" ", "a", "r", "v", "_", "d", "o", "n", "g", "_", "t", "i", "m", "e">>

\* str(file_name)+" start_time".replace('.txt', '.csv'): the method call
\* binds to the literal, the concatenation comes after it
file_name1(file_name) == file_name \o replace(start_time, txt, csv)
file_name2(file_name) == file_name \o replace(arv_time, txt, csv)
file_name3(file_name) == file_name \o replace(start_dong_time, txt, csv)
file_name4(file_name) == file_name \o replace(arv_dong_time, txt, csv)

InitNaming ==
    /\ cls = "Naming"
    /\ files \in {[file_name |-> n] : n \in TxtNames}
    /\ pop_data = Unset
    /\ env_data = Unset
    /\ move_data = Unset
    /\ returned = [pop |-> Unset, env |-> Unset, move |-> Unset]
    /\ agg = NoAgg
    /\ scores = [pop |-> NoScore, env |-> NoScore]
    /\ runs = [pop |-> 0, env |-> 0, move |-> 0]
    /\ op = "init"
    /\ err = "none"
    /\ ncalls = 0
    /\ run = [pc |-> "name_outputs", names |-> <<>>]

\* lines 71-74
OD_name_outputs ==
    /\ cls = "Naming"
    /\ run.pc = "name_outputs"
    /\ run' = [pc |-> "named",
               names |-> <<file_name1(files.file_name), file_name2(files.file_name),
                           file_name3(files.file_name), file_name4(files.file_name)>>]
    /\ op' = "name_outputs"
    /\ err' = "none"
    /\ ncalls' = ncalls + 1
    /\ UNCHANGED <<cls, files, pop_data, env_data, move_data, returned, agg, scores, runs>>

NextNaming == OD_name_outputs

SpecNaming == InitNaming /\ [][NextNaming]_vars

\* old occurs somewhere in str
Contains(str, old) ==
    \E k \in 1..Len(str) :
        k + Len(old) - 1 <= Len(str) /\ SubSeq(str, k, k + Len(old) - 1) = old

EndsWith(str, suffix) ==
    /\ Len(suffix) <= Len(str)
    /\ SubSeq(str, Len(str) - Len(suffix) + 1, Len(str)) = suffix

C25_DecadeKeys ==
    (cls = "OD" /\ op = "process_file") =>
        /\ HasCol(move_data, "age_grp")
        /\ \A i \in 1..NRows(move_data) :
              GetCol(move_data, "age_grp")[i]
                 = Num((GetCol(move_data, "agegrd_nm")[i].num \div 10) * 10)
        /\ \A j \in 1..Len(agg.start_df_time) : agg.start_df_time[j][2] % 10 = 0
        /\ \A j \in 1..Len(agg.arv_df_time) : agg.arv_df_time[j][2] % 10 = 0

----------------------------------------------------------------------------
\* every value of column name of table t, where present, is a number
\* between lo and hi
ColumnWithin(t, name, lo, hi) ==
    HasCol(t, name) =>
        \A i \in 1..NRows(t) :
            /\ IsNum(GetCol(t, name)[i])
            /\ lo <= GetCol(t, name)[i].num
            /\ GetCol(t, name)[i].num <= hi

\* C26: every population vulnerability score and every environment risk
\* score lies between 20 and 100, also on rows whose measurement is missing
\* or outside every bin of a scale
C26_CompositeRange ==
    /\ ColumnWithin(pop_result, pop_score_name, scale_factor, 5 * scale_factor)
    /\ ColumnWithin(env_result, "env_risk_score", scale_factor, 5 * scale_factor)

----------------------------------------------------------------------------
\* C27: on the same population table the score column of run_analysis.py
\* (factorized density grade times 20) equals, row by row, the score column
\* of simple_analysis.py (quantile label 1..5 times 20)
C27_CrossScriptEqual ==
    /\ (cls = "Run" /\ HasCol(pop_data, "pop_vulnerability_score")) =>
          GetCol(pop_data, "pop_vulnerability_score")
             = GetCol(simple_population(read_pop(files.rows)), "vulnerability_score")
    /\ (cls = "Simple" /\ HasCol(pop_data, "vulnerability_score")) =>
          GetCol(pop_data, "vulnerability_score")
             = GetCol(run_population(read_pop(files.rows)), "pop_vulnerability_score")

====
